---- MODULE Spec2Model ----
(***************************************************************************)
(* DingusPPC: the floating-point opcodes of the PowerPC interpreter        *)
(* (cpu/ppc/ppcfpopcodes.cpp).                                             *)
(*                                                                         *)
(* Representation.  A 32-bit word (FPSCR, CR, a GPR, an effective address) *)
(* is the set of the positions of its 1 bits, position 0 being the least   *)
(* significant bit; a 64-bit FPR cell is such a set over 0..63.  The two   *)
(* views of an FPR (dbl64_r, int64_r) are the same set: the integer view   *)
(* is the set itself, the double view is the IEEE-754 binary64 reading of  *)
(* it (sign 63, exponent 62..52, fraction 51..0).  & | ~ << >> are set     *)
(* operations, so every mask of the source is used bit for bit.            *)
(***************************************************************************)
EXTENDS Integers, FiniteSets, Sequences, TLC

VARIABLES
    fpr,                  \* ppc_state.fpr[]  : register number -> 64-bit cell
    gpr,                  \* ppc_state.gpr[]  : register number -> 32-bit word
    fpscr,                \* ppc_state.fpscr
    cr,                   \* ppc_state.cr
    host_round,           \* rounding mode of the host FPU (std::fesetround)
    mem,                  \* guest memory behind mmu_read_vmem/mmu_write_vmem
    ppc_cur_instruction,  \* the decoded fields of the instruction dispatched
    exc_log,              \* calls of the exception routine made by that instruction
    mem_log,              \* MMU accesses made by that instruction
    int_mask,             \* GrandCentral / OHare / HeathrowIC: int_mask
    int_levels,           \* ... int_levels
    int_events,           \* ... int_events
    cpu_int_latch,        \* ... cpu_int_latch, the external-interrupt output
    hdd_img,              \* ScsiHardDisk::hdd_img: position and last transfer
    scsi_cmd              \* the ScsiHardDisk call made and its arguments

\* the state of one MacIO interrupt controller
intc == <<int_mask, int_levels, int_events, cpu_int_latch>>

\* the state of the CPU and of guest memory
cpu == <<fpr, gpr, fpscr, cr, host_round, mem, ppc_cur_instruction, exc_log, mem_log>>

\* the state of one SCSI hard disk
scsi == <<hdd_img, scsi_cmd>>

vars == <<cpu, intc, scsi>>

-----------------------------------------------------------------------------
(* Words as bit sets *)

\* the positions of the 1 bits of the number n < 2^31
BitsOf(n) == {i \in 0..30 : (n \div (2^i)) % 2 = 1}

\* the uint32_t whose halves are hi and lo: Word(\H7FBF, \HFFFF) is 0x7FBFFFFF
Word(hi, lo) == BitsOf(lo) \cup {i + 16 : i \in BitsOf(hi)}

\* the uint64_t h3:h2:h1:h0
Cell(h3, h2, h1, h0) ==
    BitsOf(h0) \cup {i + 16 : i \in BitsOf(h1)}
               \cup {i + 32 : i \in BitsOf(h2)} \cup {i + 48 : i \in BitsOf(h3)}

All32 == 0..31

Not32(w) == All32 \ w

Shl32(w, n) == {i + n : i \in w} \cap All32

Shr32(w, n) == {i - n : i \in w} \cap All32

\* uint32_t(x) of a 64-bit cell
Low32(c) == c \cap All32

\* the high word of a 64-bit cell, as a 32-bit word
High32(c) == {i - 32 : i \in c \ All32}

RECURSIVE SetToNatFrom(_, _)
SetToNatFrom(S, i) ==
    IF i > 30 THEN 0
    ELSE (IF i \in S THEN 2^i ELSE 0) + SetToNatFrom(S, i + 1)

\* the number a bit set of at most 31 bits denotes
SetToNat(S) == IF S = {} THEN 0 ELSE SetToNatFrom(S, 0)

RECURSIVE LowestZero(_, _)
\* the lowest position from i on that is not in w
LowestZero(w, i) == IF i \in w THEN LowestZero(w, i + 1) ELSE i

\* w + 1 modulo 2^32
Inc32(w) ==
    LET z == LowestZero(w, 0) IN
    IF z > 31 THEN {} ELSE (w \ (0..(z - 1))) \cup {z}

\* -w modulo 2^32 (two's complement)
Neg32(w) == Inc32(Not32(w))

RECURSIVE AddC(_, _, _, _)
\* ripple-carry addition from bit i on, carry c (0 or 1)
AddC(a, b, i, c) ==
    IF i > 31 THEN {}
    ELSE LET s == (IF i \in a THEN 1 ELSE 0) + (IF i \in b THEN 1 ELSE 0) + c
         IN (IF s % 2 = 1 THEN {i} ELSE {}) \cup AddC(a, b, i + 1, s \div 2)

\* a + b modulo 2^32 (uint32_t addition)
Add32(a, b) == AddC(a, b, 0, 0)

\* int32_t(int16_t(x)) of a 16-bit displacement
SignExt16(d) == IF 15 \in d THEN d \cup (16..31) ELSE d

-----------------------------------------------------------------------------
(* FPSCR and CR bits (enum FPSCR and CR_select of cpu/ppc/ppcemu.h), as   *)
(* bit positions                                                           *)

FPSCR ==
    [RN_MASK |-> {0, 1}, NI |-> 2, XE |-> 3, ZE |-> 4, UE |-> 5, OE |-> 6, VE |-> 7,
     VXCVI |-> 8, VXSQRT |-> 9, VXSOFT |-> 10,
     FPCC_FUNAN |-> 12, FPCC_ZERO |-> 13, FPCC_POS |-> 14, FPCC_NEG |-> 15,
     FPRCD |-> 16, FI |-> 17, FR |-> 18, VXVC |-> 19, VXIMZ |-> 20, VXZDZ |-> 21,
     VXIDI |-> 22, VXISI |-> 23, VXSNAN |-> 24, XX |-> 25, ZX |-> 26, UX |-> 27,
     OX |-> 28, VX |-> 29, FEX |-> 30, FX |-> 31]

\* CR_select::CR1_field, 0x0F000000
CR1_field == 24..27

\* the hexadecimal literals of the handlers
Hex ==
    [xFFFFFFFF |-> Word(\HFFFF, \HFFFF), xF0000000 |-> Word(\HF000, 0),
     x80000000 |-> Word(\H8000, 0),       x40000000 |-> Word(\H4000, 0),
     x3E000000 |-> Word(\H3E00, 0),       x7FBFFFFF |-> Word(\H7FBF, \HFFFF),
     xFFF9FFFF |-> Word(\HFFF9, \HFFFF),  x7FFFFFFF |-> Word(\H7FFF, \HFFFF),
     xFFF80000 |-> Word(\HFFF8, 0),
     xFFF8000000000000 |-> Cell(\HFFF8, 0, 0, 0),
     xFFF8000080000000 |-> Cell(\HFFF8, 0, \H8000, 0),
     xFFF800007FFFFFFF |-> Cell(\HFFF8, 0, \H7FFF, \HFFFF)]

-----------------------------------------------------------------------------
(* The double view of an FPR cell (IEEE-754 binary64)                      *)

SignBit(c)  == 63 \in c
ExpField(c) == SetToNat({i - 52 : i \in c \cap (52..62)})

isnan(c)  == (52..62) \subseteq c /\ c \cap (0..51) # {}
isinf(c)  == (52..62) \subseteq c /\ c \cap (0..51) = {}
iszero(c) == c \ {63} = {}

\* unbiased exponent and significand (with the hidden bit of a normal number)
Unb(c) == IF ExpField(c) = 0 THEN -1022 ELSE ExpField(c) - 1023
Sig(c) == (c \cap (0..51)) \cup (IF ExpField(c) = 0 THEN {} ELSE {52})

\* the binary weights k (2^k) that make up |c|, c finite
Weights(c) == {i - 52 + Unb(c) : i \in Sig(c)}

\* |a| < |b| on the 63 magnitude bits, read as unsigned integers
MagLess(a, b) ==
    \E i \in (b \ a) \ {63} : \A j \in (a \ b) \ {63} : j < i

\* the C++ comparison x < y of two doubles (false when either is a NaN)
DLess(x, y) ==
    IF isnan(x) \/ isnan(y) THEN FALSE
    ELSE IF iszero(x) /\ iszero(y) THEN FALSE
    ELSE IF SignBit(x) # SignBit(y) THEN SignBit(x)
    ELSE IF SignBit(x) THEN MagLess(y, x) ELSE MagLess(x, y)

\* x == y of two doubles
DEq(x, y) == ~isnan(x) /\ ~isnan(y) /\ (x = y \/ (iszero(x) /\ iszero(y)))

\* x >= y of two doubles
DGeq(x, y) == DLess(y, x) \/ DEq(x, y)

\* the doubles the handlers and the explored operands name
D ==
    [PZERO |-> {},                         NZERO |-> {63},
     PINF  |-> Cell(\H7FF0, 0, 0, 0),      NINF  |-> Cell(\HFFF0, 0, 0, 0),
     QNAN  |-> Cell(\H7FF8, 0, 0, 0),      SNAN  |-> Cell(\H7FF4, 0, 0, 0),
     ONE   |-> Cell(\H3FF0, 0, 0, 0),      MONE  |-> Cell(\HBFF0, 0, 0, 0),
     HALF  |-> Cell(\H3FE0, 0, 0, 0),
     PREHALF |-> Cell(\H3FDF, \HFFFF, \HFFFF, \HFFFF),   \* 0.5 - 2^-54
     \* static_cast<double>(0x7fffffff) and -static_cast<double>(0x80000000)
     INT_MAX |-> Cell(\H41DF, \HFFFF, \HFFC0, 0),
     INT_MIN |-> Cell(\HC1E0, 0, 0, 0)]

\* trunc(|c|) modulo 2^32, c finite
IntMag(c) == Weights(c) \cap All32

FracNZ(c)     == \E k \in Weights(c) : k < 0
FracGEHalf(c) == -1 \in Weights(c)
FracGTHalf(c) == -1 \in Weights(c) /\ \E k \in Weights(c) : k < -1

\* f + 0.5 is done by the host FPU.  For |f| < 2^31 the sum is exact, or
\* rounds without crossing an integer, except for f = 0.5 - 2^-54, whose sum
\* 1 - 2^-54 lies half way between 1 - 2^-53 and 1.0.
HalfSumIsOne(f, host) == f = D.PREHALF /\ host \in {"FE_TONEAREST", "FE_UPWARD"}

\* uint32_t(round_to_nearest(f)), f within the int32 range
round_to_nearest(f, host) ==
    IF SignBit(f)
    THEN IF FracGTHalf(f) THEN Neg32(Inc32(IntMag(f))) ELSE Neg32(IntMag(f))
    ELSE IF FracGEHalf(f) \/ HalfSumIsOne(f, host) THEN Inc32(IntMag(f)) ELSE IntMag(f)

\* uint32_t(round_to_zero(f))
round_to_zero(f) == IF SignBit(f) THEN Neg32(IntMag(f)) ELSE IntMag(f)

\* uint32_t(round_to_pos_inf(f))
round_to_pos_inf(f) ==
    IF SignBit(f) THEN Neg32(IntMag(f))
    ELSE IF FracNZ(f) THEN Inc32(IntMag(f)) ELSE IntMag(f)

\* uint32_t(round_to_neg_inf(f))
round_to_neg_inf(f) ==
    IF SignBit(f)
    THEN IF FracNZ(f) THEN Neg32(Inc32(IntMag(f))) ELSE Neg32(IntMag(f))
    ELSE IntMag(f)

-----------------------------------------------------------------------------
(* FPSCR helpers *)

\* the operand of fesetround that set_host_rounding_mode(mode) passes
set_host_rounding_mode(mode) ==
    CASE mode \cap FPSCR.RN_MASK = {}     -> "FE_TONEAREST"
      [] mode \cap FPSCR.RN_MASK = {0}    -> "FE_TOWARDZERO"
      [] mode \cap FPSCR.RN_MASK = {1}    -> "FE_UPWARD"
      [] mode \cap FPSCR.RN_MASK = {0, 1} -> "FE_DOWNWARD"

\* ppc_state.fpscr after update_fex()
update_fex(f) ==
    LET fex_result == ((f \cap Shl32(f, 22)) \cap Hex.x3E000000) # {}
    IN (f \cap Not32(Hex.x40000000)) \cup (IF fex_result THEN {30} ELSE {})

\* ppc_state.cr after ppc_update_cr1()
ppc_update_cr1(c, f) == (c \ CR1_field) \cup (Shr32(f, 4) \cap CR1_field)

\* the decoded instruction: handler, register fields, Rc, and the remaining
\* immediate field (FM, IMM, crbD, crfS or the displacement)
Instr(op, d, a, b, c, rc, x) ==
    [op |-> op, reg_d |-> d, reg_a |-> a, reg_b |-> b, reg_c |-> c,
     rc_flag |-> rc, imm |-> x]

\* one call of the exception routine
ExcCall(type, cause) == [type |-> type, cause |-> cause]

-----------------------------------------------------------------------------
(* Conversion to integer: round_to_int, ppc_fctiw, ppc_fctiwz *)

\* the test that sends round_to_int to one of its two VXCVI branches
ConvInvalid(val) ==
    isnan(val) \/ DLess(D.INT_MAX, val) \/ DLess(val, D.INT_MIN)

\* the FPSCR on a VXCVI branch, before the VE test
ConvInvalidFpscr(f, val) ==
    ((f \ {FPSCR.FR, FPSCR.FI}) \cup {FPSCR.VXCVI, FPSCR.VX})
        \cup (IF isnan(val) /\ 51 \notin val THEN {FPSCR.VXSNAN} ELSE {})

\* ConvSaturated with the sign test of the range branch inverted
ConvSaturated_SignFlipped(val) ==
    IF isnan(val) THEN Hex.xFFF8000080000000
    ELSE IF DGeq(val, D.PZERO) THEN Hex.xFFF8000080000000
    ELSE Hex.xFFF800007FFFFFFF

\* what a VXCVI branch stores in frD when VE is clear
ConvSaturated(val) ==
    IF isnan(val) THEN Hex.xFFF8000080000000
    ELSE IF DGeq(val, D.PZERO) THEN Hex.xFFF800007FFFFFFF
    ELSE Hex.xFFF8000080000000

\* the switch on (mode & 0x3): ppc_result64_d before the marker is ORed in
ConvRounded(mode, val, host) ==
    CASE mode = 0 -> round_to_nearest(val, host)
      [] mode = 1 -> round_to_zero(val)
      [] mode = 2 -> round_to_pos_inf(val)
      [] mode = 3 -> round_to_neg_inf(val)

\* what the in-range branch stores in frD
ConvInRange(mode, val, host) ==
    ConvRounded(mode, val, host) \cup Hex.xFFF8000000000000

\* (mutant) round_to_int storing the sentinel also when VE is set
round_to_int_StoresOnTrap(op, mode, reg_d, reg_b, rc_flag, resumes) ==
    LET val_reg_b == fpr[reg_b]
        invalid   == ConvInvalid(val_reg_b)
        f1        == IF invalid THEN ConvInvalidFpscr(fpscr, val_reg_b) ELSE fpscr
        trap      == invalid /\ FPSCR.VE \in f1
        f2        == IF trap THEN f1 \cup {FPSCR.FEX} ELSE f1
    IN  /\ ppc_cur_instruction' = Instr(op, reg_d, 0, reg_b, 0, rc_flag, 0)
        /\ fpscr' = f2
        /\ fpr' = IF invalid THEN [fpr EXCEPT ![reg_d] = ConvSaturated(val_reg_b)]
                  ELSE [fpr EXCEPT ![reg_d] = ConvInRange(mode, val_reg_b, host_round)]
        /\ exc_log' = IF trap THEN <<ExcCall("EXC_PROGRAM", "FPU_EXCEPTION")>> ELSE <<>>
        /\ cr' = IF rc_flag /\ (~trap \/ resumes) THEN ppc_update_cr1(cr, f2) ELSE cr
        /\ mem_log' = <<>>
        /\ (trap \/ resumes)
        /\ UNCHANGED <<gpr, host_round, mem, intc, scsi>>

\* round_to_int(mode) for the instruction op; resumes tells whether
\* ppc_floating_point_exception() returns to the handler
round_to_int(op, mode, reg_d, reg_b, rc_flag, resumes) ==
    LET val_reg_b == fpr[reg_b]
        invalid   == ConvInvalid(val_reg_b)
        f1        == IF invalid THEN ConvInvalidFpscr(fpscr, val_reg_b) ELSE fpscr
        trap      == invalid /\ FPSCR.VE \in f1
        f2        == IF trap THEN f1 \cup {FPSCR.FEX} ELSE f1
    IN  /\ ppc_cur_instruction' = Instr(op, reg_d, 0, reg_b, 0, rc_flag, 0)
        /\ fpscr' = f2
        /\ fpr' = IF trap THEN fpr
                  ELSE IF invalid THEN [fpr EXCEPT ![reg_d] = ConvSaturated(val_reg_b)]
                  ELSE [fpr EXCEPT ![reg_d] = ConvInRange(mode, val_reg_b, host_round)]
        /\ exc_log' = IF trap THEN <<ExcCall("EXC_PROGRAM", "FPU_EXCEPTION")>> ELSE <<>>
        /\ cr' = IF rc_flag /\ (~trap \/ resumes) THEN ppc_update_cr1(cr, f2) ELSE cr
        /\ mem_log' = <<>>
        /\ (trap \/ resumes)
        /\ UNCHANGED <<gpr, host_round, mem, intc, scsi>>

ppc_fctiw(reg_d, reg_b, rc_flag, resumes) ==
    round_to_int("fctiw", SetToNat(fpscr \cap {0, 1}), reg_d, reg_b, rc_flag, resumes)

ppc_fctiwz(reg_d, reg_b, rc_flag, resumes) ==
    round_to_int("fctiwz", 1, reg_d, reg_b, rc_flag, resumes)

-----------------------------------------------------------------------------
(* Instructions that write the FPSCR *)

\* effects common to the handlers that touch only the FPSCR and CR1
FpscrWrite(ins, new_fpscr) ==
    /\ ppc_cur_instruction' = ins
    /\ fpscr' = new_fpscr
    /\ cr' = IF ins.rc_flag THEN ppc_update_cr1(cr, new_fpscr) ELSE cr
    /\ exc_log' = <<>>
    /\ mem_log' = <<>>
    /\ UNCHANGED <<fpr, gpr, host_round, mem, intc, scsi>>

\* (mutant) cr_mask of ppc_mtfsf without the FEX and VX exclusion
mtfsf_mask_WritesSummary(fm) ==
    IF fm = 0..7 THEN Hex.xFFFFFFFF
    ELSE UNION {(4 * k)..(4 * k + 3) : k \in fm}

\* cr_mask of ppc_mtfsf for the 8-bit field mask fm
mtfsf_mask(fm) ==
    LET cr_mask == IF fm = 0..7 THEN Hex.xFFFFFFFF
                   ELSE UNION {(4 * k)..(4 * k + 3) : k \in fm}
    IN cr_mask \cap Not32({FPSCR.FEX, FPSCR.VX})

ppc_mtfsf(reg_b, fm, rc_flag) ==
    LET cr_mask == mtfsf_mask(fm) IN
    FpscrWrite(Instr("mtfsf", 0, 0, reg_b, 0, rc_flag, fm),
               (fpscr \cap Not32(cr_mask)) \cup (Low32(fpr[reg_b]) \cap cr_mask))

\* mask of ppc_mtfsfi for crf_d = 4 * crfD
mtfsfi_mask(crf_d) ==
    Shr32(Hex.xF0000000, crf_d) \cap Not32({FPSCR.FEX, FPSCR.VX})

\* ppc_mtfsfi: field crfD (0..7), 4-bit immediate imm4 (a set over 0..3)
ppc_mtfsfi(crfD, imm4, rc_flag) ==
    LET crf_d == 4 * crfD
        imm   == {i + 28 : i \in imm4}
        mask  == mtfsfi_mask(crf_d)
    IN FpscrWrite(Instr("mtfsfi", crfD, 0, 0, 0, rc_flag, imm4),
                  (fpscr \cap Not32(mask)) \cup (Shr32(imm, crf_d) \cap mask))

\* the guard of ppc_mtfsb0 and ppc_mtfsb1
mtfsb_allowed(crf_d) == crf_d = 0 \/ crf_d > 2

ppc_mtfsb0(crf_d, rc_flag) ==
    FpscrWrite(Instr("mtfsb0", crf_d, 0, 0, 0, rc_flag, 0),
               IF mtfsb_allowed(crf_d)
               THEN fpscr \cap Not32(Shr32(Hex.x80000000, crf_d)) ELSE fpscr)

ppc_mtfsb1(crf_d, rc_flag) ==
    FpscrWrite(Instr("mtfsb1", crf_d, 0, 0, 0, rc_flag, 0),
               IF mtfsb_allowed(crf_d)
               THEN fpscr \cup Shr32(Hex.x80000000, crf_d) ELSE fpscr)

\* (mutant) every bit of the field counted as clearable
mcrfs_clearable_All == Hex.xFFFFFFFF

\* the FPSCR bits ppc_mcrfs may clear
mcrfs_clearable ==
    {FPSCR.FX, FPSCR.OX, FPSCR.UX, FPSCR.ZX, FPSCR.XX, FPSCR.VXSNAN,
     FPSCR.VXISI, FPSCR.VXIDI, FPSCR.VXZDZ, FPSCR.VXIMZ, FPSCR.VXVC,
     FPSCR.VXSOFT, FPSCR.VXSQRT, FPSCR.VXCVI}

\* ppc_mcrfs: CR field crfD (0..7) from FPSCR field crfS (0..7)
ppc_mcrfs(crfD, crfS) ==
    LET crf_d == 4 * crfD
        crf_s == 4 * crfS
    IN  /\ ppc_cur_instruction' = Instr("mcrfs", crfD, 0, 0, 0, FALSE, crfS)
        /\ cr' = (cr \cap Not32(Shr32(Hex.xF0000000, crf_d)))
                    \cup Shr32(Shl32(fpscr, crf_s) \cap Hex.xF0000000, crf_d)
        /\ fpscr' = fpscr \cap Not32(Shr32(Hex.xF0000000, crf_s) \cap mcrfs_clearable)
        /\ exc_log' = <<>>
        /\ mem_log' = <<>>
        /\ UNCHANGED <<fpr, gpr, host_round, mem, intc, scsi>>

\* update_fpscr(new_fpscr), the FPSCR write used outside the FP handlers
update_fpscr(new_fpscr) ==
    /\ host_round' = IF new_fpscr \cap FPSCR.RN_MASK # fpscr \cap FPSCR.RN_MASK
                     THEN set_host_rounding_mode(new_fpscr \cap FPSCR.RN_MASK)
                     ELSE host_round
    /\ fpscr' = new_fpscr
    /\ ppc_cur_instruction' = Instr("update_fpscr", 0, 0, 0, 0, FALSE, new_fpscr)
    /\ exc_log' = <<>>
    /\ mem_log' = <<>>
    /\ UNCHANGED <<fpr, gpr, cr, mem, intc, scsi>>

-----------------------------------------------------------------------------
(* Host arithmetic on doubles: operator +, -, *, /, std::fma, (float)      *)
(*                                                                         *)
(* Finite operands are multiples of 2^-FixU of small magnitude, so that    *)
(* every sum, product and exact quotient is a double and no rounding takes *)
(* place in double precision; NaNs, infinities and zeros follow IEEE 754.  *)
(* The NaN an operation returns depends on the host, so each operation     *)
(* yields the set of the cells the build can produce.                      *)

FixU == 8

\* unary minus: the sign bit flipped, also on a NaN
NegD(c) == IF 63 \in c THEN c \ {63} ELSE c \cup {63}

\* the quiet form of a NaN
Quiet(c) == c \cup {51}

\* a finite double as a signed count of units 2^-FixU
ToFix(c) ==
    LET m == SetToNat({i - 52 + Unb(c) + FixU : i \in Sig(c)})
    IN IF SignBit(c) THEN 0 - m ELSE m

\* the double n * 2^-u, n a non-zero integer
FromFix(n, u) ==
    LET m    == IF n < 0 THEN 0 - n ELSE n
        bits == BitsOf(m)
        msb  == CHOOSE i \in bits : \A j \in bits : j <= i
        e    == msb - u + 1023
    IN {52 - msb + j : j \in bits \ {msb}}
          \cup {52 + k : k \in BitsOf(e)}
          \cup (IF n < 0 THEN {63} ELSE {})

\* the NaN generated by an invalid operation: its sign is the host's choice
DefaultNaNs == {D.QNAN, NegD(D.QNAN)}

\* the result of an operation with NaN operands: one of them, quieted
NaNResults(ops) == {Quiet(x) : x \in {y \in ops : isnan(y)}}

\* an exact zero sum of operands that are not both zeros of one sign
ZeroSum(host) == IF host = "FE_DOWNWARD" THEN D.NZERO ELSE D.PZERO

\* a + b
Sum(a, b, host) ==
    IF isnan(a) \/ isnan(b) THEN NaNResults({a, b})
    ELSE IF isinf(a) /\ isinf(b) THEN (IF a = b THEN {a} ELSE DefaultNaNs)
    ELSE IF isinf(a) THEN {a}
    ELSE IF isinf(b) THEN {b}
    ELSE IF iszero(a) /\ iszero(b) THEN (IF a = b THEN {a} ELSE {ZeroSum(host)})
    ELSE LET n == ToFix(a) + ToFix(b)
         IN IF n = 0 THEN {ZeroSum(host)} ELSE {FromFix(n, FixU)}

\* a - b
Diff(a, b, host) ==
    IF isnan(a) \/ isnan(b) THEN NaNResults({a, b}) ELSE Sum(a, NegD(b), host)

\* the sign of a product or quotient, applied to the magnitude cell m
Signed(a, b, m) == IF SignBit(a) # SignBit(b) THEN m \cup {63} ELSE m

\* a * c
Prod(a, c) ==
    IF isnan(a) \/ isnan(c) THEN NaNResults({a, c})
    ELSE IF (isinf(a) /\ iszero(c)) \/ (iszero(a) /\ isinf(c)) THEN DefaultNaNs
    ELSE IF isinf(a) \/ isinf(c) THEN {Signed(a, c, D.PINF)}
    ELSE IF iszero(a) \/ iszero(c) THEN {Signed(a, c, D.PZERO)}
    ELSE {FromFix(ToFix(a) * ToFix(c), 2 * FixU)}

\* a / b; the quotient of two finite non-zero operands is explored when it
\* is exact in 2 * FixU fraction bits
Quot(a, b) ==
    IF isnan(a) \/ isnan(b) THEN NaNResults({a, b})
    ELSE IF (isinf(a) /\ isinf(b)) \/ (iszero(a) /\ iszero(b)) THEN DefaultNaNs
    ELSE IF isinf(a) \/ iszero(b) THEN {Signed(a, b, D.PINF)}
    ELSE IF iszero(a) \/ isinf(b) THEN {Signed(a, b, D.PZERO)}
    ELSE LET n == ToFix(a \ {63}) * (2^(2 * FixU))
             d == ToFix(b \ {63})
         IN IF n % d = 0 THEN {Signed(a, b, FromFix(n \div d, 2 * FixU))} ELSE {}

\* std::fma(a, c, b) = a * c + b with a single rounding
Fma(a, c, b, host) ==
    IF isnan(a) \/ isnan(c) \/ isnan(b) THEN NaNResults({a, c, b})
    ELSE IF (isinf(a) /\ iszero(c)) \/ (iszero(a) /\ isinf(c)) THEN DefaultNaNs
    ELSE IF isinf(a) \/ isinf(c)
         THEN (IF isinf(b) /\ b # Signed(a, c, D.PINF) THEN DefaultNaNs
               ELSE {Signed(a, c, D.PINF)})
    ELSE IF isinf(b) THEN {b}
    ELSE LET p == ToFix(a) * ToFix(c)
             n == p + ToFix(b) * (2^FixU)
         IN IF n # 0 THEN {FromFix(n, 2 * FixU)}
            ELSE IF p = 0 /\ Signed(a, c, D.PZERO) = b THEN {b}
            ELSE {ZeroSum(host)}

\* c + 2^p on the magnitude bits, the carry running into the exponent
IncAt(c, p) ==
    LET z == LowestZero(c, p) IN (c \ (p..(z - 1))) \cup {z}

\* (double)(float)c: c rounded to single precision under the host mode
ToSingle(c, host) ==
    IF isnan(c) THEN Quiet(c) \ (0..28)
    ELSE IF isinf(c) \/ iszero(c) THEN c
    ELSE
      LET e    == Unb(c)
          p    == IF e >= -126 THEN 29 ELSE 29 + (-126 - e)
          sig  == Sig(c)
          lost == sig \cap (0..(p - 1))
          sgn  == c \cap {63}
          away == \/ host = "FE_UPWARD" /\ sgn = {}
                  \/ host = "FE_DOWNWARD" /\ sgn # {}
          up   == /\ lost # {}
                  /\ \/ away
                     \/ /\ host = "FE_TONEAREST"
                        /\ (p - 1) \in sig
                        /\ (lost # {p - 1} \/ p \in sig)
          r    == IF p > 52
                  THEN (IF ~up THEN sgn
                        ELSE IF p = 53 THEN IncAt(c \ (0..51), 52)
                        ELSE Cell(\H36A0, 0, 0, 0) \cup sgn)
                  ELSE IF up THEN IncAt(c \ (0..(p - 1)), p)
                  ELSE c \ (0..(p - 1))
      IN IF Unb(r) <= 127 THEN r
         ELSE IF away \/ host = "FE_TONEAREST" THEN D.PINF \cup sgn
         ELSE Cell(\H47EF, \HFFFF, \HE000, 0) \cup sgn

Single(rs, host) == {ToSingle(r, host) : r \in rs}

Negated(rs) == {NegD(r) : r \in rs}

-----------------------------------------------------------------------------
(* Arithmetic instructions: ppc_confirm_inf_nan, fpresult_update, handlers *)

\* the values the macro FP_ZERO of <cmath> has, as doubles: 0 (MSVC),
\* 2 (glibc, musl), 3 (macOS)
FP_ZERO == {D.PZERO, Cell(\H4000, 0, 0, 0), Cell(\H4008, 0, 0, 0)}

\* ppc_state.fpscr after ppc_confirm_inf_nan<fpop>, entered with FPSCR f
ppc_confirm_inf_nan(fpop, f, input_a, input_b, fp_zero) ==
    LET f0  == f \cap Hex.x7FBFFFFF
        set == CASE fpop = "DIV" ->
                      IF isinf(input_a) /\ isinf(input_b)
                      THEN {FPSCR.FX, FPSCR.VXIDI}
                      ELSE IF DEq(input_a, fp_zero) /\ DEq(input_b, fp_zero)
                      THEN {FPSCR.FX, FPSCR.VXZDZ}
                      ELSE {}
                 [] fpop = "SUB" ->
                      IF (isinf(input_a) /\ isinf(input_b))
                            \/ (isnan(input_a) /\ isnan(input_b))
                      THEN {FPSCR.FX, FPSCR.VXISI} ELSE {}
                 [] fpop = "ADD" ->
                      IF isnan(input_a) /\ isnan(input_b)
                      THEN {FPSCR.FX, FPSCR.VXISI} ELSE {}
                 [] fpop = "SQRT" ->
                      IF isnan(input_b) \/ DEq(input_b, D.MONE)
                      THEN {FPSCR.FX, FPSCR.VXSQRT} ELSE {}
                 [] fpop = "MUL" ->
                      IF isnan(input_a) /\ isnan(input_b)
                      THEN {FPSCR.FX} ELSE {}
    IN update_fex(f0 \cup set)

\* ppc_state.fpscr after fpresult_update(set_result)
fpresult_update(f, set_result) ==
    IF isnan(set_result) THEN f \cup {FPSCR.FPCC_FUNAN, FPSCR.FPRCD}
    ELSE (f \cup {IF DLess(D.PZERO, set_result) THEN FPSCR.FPCC_POS
                  ELSE IF DLess(set_result, D.PZERO) THEN FPSCR.FPCC_NEG
                  ELSE FPSCR.FPCC_ZERO})
            \cup (IF isinf(set_result) THEN {FPSCR.FPCC_FUNAN} ELSE {})

\* the tail the arithmetic handlers share: store one of the results the
\* host can produce, fpresult_update, and the CR1 copy under rc_flag
ArithStep(ins, f1, results) ==
    \E r \in results :
        LET f2 == fpresult_update(f1, r) IN
        /\ ppc_cur_instruction' = ins
        /\ fpr' = [fpr EXCEPT ![ins.reg_d] = r]
        /\ fpscr' = f2
        /\ cr' = IF ins.rc_flag THEN ppc_update_cr1(cr, f2) ELSE cr
        /\ exc_log' = <<>>
        /\ mem_log' = <<>>
        /\ UNCHANGED <<gpr, host_round, mem, intc, scsi>>

\* the NaN test of a two-operand handler and its ppc_confirm_inf_nan call
Confirm2(fpop, f, x, y, fp_zero) ==
    IF isnan(x) \/ isnan(y) THEN ppc_confirm_inf_nan(fpop, f, x, y, fp_zero) ELSE f

\* the two NaN tests of a multiply-add handler: <MUL> on (frA, frC), then
\* <fpop> on (frA, frB)
Confirm3(fpop, f, a, c, b) ==
    LET f1 == Confirm2("MUL", f, a, c, D.PZERO)
    IN IF isnan(b) THEN ppc_confirm_inf_nan(fpop, f1, a, b, D.PZERO) ELSE f1

ppc_fadd(reg_d, reg_a, reg_b, rc_flag) ==
    ArithStep(Instr("fadd", reg_d, reg_a, reg_b, 0, rc_flag, 0),
              IF isnan(fpr[reg_a]) \/ isnan(fpr[reg_b])
                  THEN ppc_confirm_inf_nan("ADD", fpscr \cup {FPSCR.FPCC_FUNAN}, fpr[reg_a], fpr[reg_b], D.PZERO)
                  ELSE fpscr,
              Sum(fpr[reg_a], fpr[reg_b], host_round))

ppc_fsub(reg_d, reg_a, reg_b, rc_flag) ==
    ArithStep(Instr("fsub", reg_d, reg_a, reg_b, 0, rc_flag, 0),
              IF isnan(fpr[reg_a]) \/ isnan(fpr[reg_b])
                  THEN ppc_confirm_inf_nan("SUB", fpscr \cup {FPSCR.FPCC_FUNAN}, fpr[reg_a], fpr[reg_b], D.PZERO)
                  ELSE fpscr,
              Diff(fpr[reg_a], fpr[reg_b], host_round))

ppc_fdiv(reg_d, reg_a, reg_b, rc_flag) ==
    \E fp_zero \in FP_ZERO :
    ArithStep(Instr("fdiv", reg_d, reg_a, reg_b, 0, rc_flag, 0),
                  Confirm2("DIV", fpscr, fpr[reg_a], fpr[reg_b], fp_zero),
                  Quot(fpr[reg_a], fpr[reg_b]))

ppc_fmul(reg_d, reg_a, reg_c, rc_flag) ==
    ArithStep(Instr("fmul", reg_d, reg_a, 0, reg_c, rc_flag, 0),
              Confirm2("MUL", fpscr, fpr[reg_a], fpr[reg_c], D.PZERO),
              Prod(fpr[reg_a], fpr[reg_c]))

ppc_fmadd(reg_d, reg_a, reg_b, reg_c, rc_flag) ==
    ArithStep(Instr("fmadd", reg_d, reg_a, reg_b, reg_c, rc_flag, 0),
              Confirm3("ADD", fpscr, fpr[reg_a], fpr[reg_c], fpr[reg_b]),
              Fma(fpr[reg_a], fpr[reg_c], fpr[reg_b], host_round))

ppc_fmsub(reg_d, reg_a, reg_b, reg_c, rc_flag) ==
    ArithStep(Instr("fmsub", reg_d, reg_a, reg_b, reg_c, rc_flag, 0),
              Confirm3("SUB", fpscr, fpr[reg_a], fpr[reg_c], fpr[reg_b]),
              Fma(fpr[reg_a], fpr[reg_c], NegD(fpr[reg_b]), host_round))

ppc_fnmadd(reg_d, reg_a, reg_b, reg_c, rc_flag) ==
    ArithStep(Instr("fnmadd", reg_d, reg_a, reg_b, reg_c, rc_flag, 0),
              Confirm3("ADD", fpscr, fpr[reg_a], fpr[reg_c], fpr[reg_b]),
              Negated(Fma(fpr[reg_a], fpr[reg_c], fpr[reg_b], host_round)))

ppc_fnmsub(reg_d, reg_a, reg_b, reg_c, rc_flag) ==
    ArithStep(Instr("fnmsub", reg_d, reg_a, reg_b, reg_c, rc_flag, 0),
              Confirm3("SUB", fpscr, fpr[reg_a], fpr[reg_c], fpr[reg_b]),
              Fma(NegD(fpr[reg_a]), fpr[reg_c], fpr[reg_b], host_round))

ppc_fadds(reg_d, reg_a, reg_b, rc_flag) ==
    ArithStep(Instr("fadds", reg_d, reg_a, reg_b, 0, rc_flag, 0),
              Confirm2("ADD", fpscr, fpr[reg_a], fpr[reg_b], D.PZERO),
              Single(Sum(fpr[reg_a], fpr[reg_b], host_round), host_round))

ppc_fsubs(reg_d, reg_a, reg_b, rc_flag) ==
    ArithStep(Instr("fsubs", reg_d, reg_a, reg_b, 0, rc_flag, 0),
              Confirm2("SUB", fpscr, fpr[reg_a], fpr[reg_b], D.PZERO),
              Single(Diff(fpr[reg_a], fpr[reg_b], host_round), host_round))

ppc_fdivs(reg_d, reg_a, reg_b, rc_flag) ==
    \E fp_zero \in FP_ZERO :
    ArithStep(Instr("fdivs", reg_d, reg_a, reg_b, 0, rc_flag, 0),
                  Confirm2("DIV", fpscr, fpr[reg_a], fpr[reg_b], fp_zero),
                  Single(Quot(fpr[reg_a], fpr[reg_b]), host_round))

ppc_fmuls(reg_d, reg_a, reg_c, rc_flag) ==
    ArithStep(Instr("fmuls", reg_d, reg_a, 0, reg_c, rc_flag, 0),
              Confirm2("MUL", fpscr, fpr[reg_a], fpr[reg_c], D.PZERO),
              Single(Prod(fpr[reg_a], fpr[reg_c]), host_round))

ppc_fmadds(reg_d, reg_a, reg_b, reg_c, rc_flag) ==
    ArithStep(Instr("fmadds", reg_d, reg_a, reg_b, reg_c, rc_flag, 0),
              Confirm3("ADD", fpscr, fpr[reg_a], fpr[reg_c], fpr[reg_b]),
              Single(Fma(fpr[reg_a], fpr[reg_c], fpr[reg_b], host_round), host_round))

ppc_fmsubs(reg_d, reg_a, reg_b, reg_c, rc_flag) ==
    ArithStep(Instr("fmsubs", reg_d, reg_a, reg_b, reg_c, rc_flag, 0),
              Confirm3("SUB", fpscr, fpr[reg_a], fpr[reg_c], fpr[reg_b]),
              Single(Fma(fpr[reg_a], fpr[reg_c], NegD(fpr[reg_b]), host_round), host_round))

ppc_fnmadds(reg_d, reg_a, reg_b, reg_c, rc_flag) ==
    ArithStep(Instr("fnmadds", reg_d, reg_a, reg_b, reg_c, rc_flag, 0),
              Confirm3("ADD", fpscr, fpr[reg_a], fpr[reg_c], fpr[reg_b]),
              Negated(Single(Fma(fpr[reg_a], fpr[reg_c], fpr[reg_b], host_round), host_round)))

ppc_fnmsubs(reg_d, reg_a, reg_b, reg_c, rc_flag) ==
    ArithStep(Instr("fnmsubs", reg_d, reg_a, reg_b, reg_c, rc_flag, 0),
              Confirm3("SUB", fpscr, fpr[reg_a], fpr[reg_c], fpr[reg_b]),
              Single(Fma(NegD(fpr[reg_a]), fpr[reg_c], fpr[reg_b], host_round), host_round))

-----------------------------------------------------------------------------
(* Floating-point loads and stores *)

\* *(float*)(&result) widened to double: the 32-bit pattern w as a double
FloatToDouble(w) ==
    LET s == IF 31 \in w THEN {63} ELSE {}
        e == SetToNat({i - 23 : i \in w \cap (23..30)})
        m == w \cap (0..22)
    IN IF e = 255
       THEN s \cup (52..62) \cup {i + 29 : i \in m} \cup (IF m # {} THEN {51} ELSE {})
       ELSE IF e = 0
       THEN (IF m = {} THEN s
             ELSE LET msb == CHOOSE i \in m : \A j \in m : j <= i
                  IN s \cup {52 + k : k \in BitsOf(msb + 874)}
                       \cup {52 - msb + j : j \in m \ {msb}})
       ELSE s \cup {52 + k : k \in BitsOf(e + 896)} \cup {i + 29 : i \in m}

\* *(uint32_t*)(&result) of float result = c: the pattern of c as a float
DoubleToFloatBits(c, host) ==
    LET r == ToSingle(c, host)
        s == IF 63 \in r THEN {31} ELSE {}
    IN IF isnan(r) \/ isinf(r) THEN s \cup (23..30) \cup {i - 29 : i \in r \cap (29..51)}
       ELSE IF iszero(r) THEN s
       ELSE IF Unb(r) >= -126
       THEN s \cup {23 + k : k \in BitsOf(Unb(r) + 127)} \cup {i - 29 : i \in r \cap (29..51)}
       ELSE s \cup {i + 97 + Unb(r) : i \in Sig(r)}

\* (mutant) the D-form address adds GPR[rA] even when the rA field is 0
EA_D_UsesR0(reg_a, d) == Add32(SignExt16(d), gpr[reg_a])

\* the effective address of a D-form: int32_t(int16_t(d)) + (rA|0)
EA_D(reg_a, d) == Add32(SignExt16(d), IF reg_a # 0 THEN gpr[reg_a] ELSE {})

\* the effective address of an X-form: (rA|0) + rB
EA_X(reg_a, reg_b) ==
    IF reg_a # 0 THEN Add32(gpr[reg_a], gpr[reg_b]) ELSE gpr[reg_b]

\* the word addresses the MMU maps; an access elsewhere raises an exception
Mapped == {Word(0, \H1000), Word(0, \H1004)}

MemOk(ea, size) == ea \in Mapped /\ (size = 8 => Add32(ea, {2}) \in Mapped)

\* mmu_read_vmem<uint32_t / uint64_t>(ea), big-endian
mmu_read_vmem(size, ea) ==
    IF size = 4 THEN mem[ea]
    ELSE {i + 32 : i \in mem[ea]} \cup mem[Add32(ea, {2})]

\* guest memory after mmu_write_vmem<uint32_t / uint64_t>(ea, value)
mmu_write_vmem(size, ea, value) ==
    IF size = 4 THEN [mem EXCEPT ![ea] = value]
    ELSE [mem EXCEPT ![ea] = High32(value), ![Add32(ea, {2})] = Low32(value)]

\* one call of the MMU
MemAccess(kind, size, ea, value) ==
    [kind |-> kind, size |-> size, ea |-> ea, value |-> value]

\* (mutant) the rA = 0 branch also writes an address back to rA
IllegalUpdate_WritesBack(ins) ==
    /\ ppc_cur_instruction' = ins
    /\ exc_log' = <<ExcCall("EXC_PROGRAM", "ILLEGAL_OP")>>
    /\ mem_log' = <<>>
    /\ gpr' = [gpr EXCEPT ![ins.reg_a] = {}]
    /\ UNCHANGED <<fpr, fpscr, cr, host_round, mem, intc, scsi>>

\* the else branch of the update forms: rA = 0
IllegalUpdate(ins) ==
    /\ ppc_cur_instruction' = ins
    /\ exc_log' = <<ExcCall("EXC_PROGRAM", "ILLEGAL_OP")>>
    /\ mem_log' = <<>>
    /\ UNCHANGED <<fpr, gpr, fpscr, cr, host_round, mem, intc, scsi>>

\* (mutant) a load whose update form never writes rA
FpLoad_NoWriteback(ins, update, ea, size) ==
    IF update /\ ins.reg_a = 0 THEN IllegalUpdate(ins)
    ELSE LET fault == ~MemOk(ea, size)
         IN /\ ppc_cur_instruction' = ins
            /\ mem_log' = <<MemAccess("read", size, ea, {})>>
            /\ exc_log' = IF fault THEN <<ExcCall("EXC_DSI", "MMU")>> ELSE <<>>
            /\ fpr' = IF fault THEN fpr
                      ELSE [fpr EXCEPT ![ins.reg_d] =
                               IF size = 4 THEN FloatToDouble(mmu_read_vmem(4, ea))
                               ELSE mmu_read_vmem(8, ea)]
            /\ gpr' = gpr
            /\ UNCHANGED <<fpscr, cr, host_round, mem, intc, scsi>>

\* a load of size bytes into frD.  Outside the mapped words the MMU raises
\* an exception and does not return to the handler
FpLoad(ins, update, ea, size) ==
    IF update /\ ins.reg_a = 0 THEN IllegalUpdate(ins)
    ELSE LET fault == ~MemOk(ea, size)
         IN /\ ppc_cur_instruction' = ins
            /\ mem_log' = <<MemAccess("read", size, ea, {})>>
            /\ exc_log' = IF fault THEN <<ExcCall("EXC_DSI", "MMU")>> ELSE <<>>
            /\ fpr' = IF fault THEN fpr
                      ELSE [fpr EXCEPT ![ins.reg_d] =
                               IF size = 4 THEN FloatToDouble(mmu_read_vmem(4, ea))
                               ELSE mmu_read_vmem(8, ea)]
            /\ gpr' = IF update /\ ~fault THEN [gpr EXCEPT ![ins.reg_a] = ea] ELSE gpr
            /\ UNCHANGED <<fpscr, cr, host_round, mem, intc, scsi>>

\* (mutant) a store whose update form writes rA before the MMU call
FpStore_WritesBackFirst(ins, update, ea, size, value) ==
    IF update /\ ins.reg_a = 0 THEN IllegalUpdate(ins)
    ELSE LET fault == ~MemOk(ea, size)
         IN /\ ppc_cur_instruction' = ins
            /\ mem_log' = <<MemAccess("write", size, ea, value)>>
            /\ exc_log' = IF fault THEN <<ExcCall("EXC_DSI", "MMU")>> ELSE <<>>
            /\ mem' = IF fault THEN mem ELSE mmu_write_vmem(size, ea, value)
            /\ gpr' = IF update THEN [gpr EXCEPT ![ins.reg_a] = ea] ELSE gpr
            /\ UNCHANGED <<fpr, fpscr, cr, host_round, intc, scsi>>

\* a store of value (size bytes); the register field of frS is kept in reg_d
FpStore(ins, update, ea, size, value) ==
    IF update /\ ins.reg_a = 0 THEN IllegalUpdate(ins)
    ELSE LET fault == ~MemOk(ea, size)
         IN /\ ppc_cur_instruction' = ins
            /\ mem_log' = <<MemAccess("write", size, ea, value)>>
            /\ exc_log' = IF fault THEN <<ExcCall("EXC_DSI", "MMU")>> ELSE <<>>
            /\ mem' = IF fault THEN mem ELSE mmu_write_vmem(size, ea, value)
            /\ gpr' = IF update /\ ~fault THEN [gpr EXCEPT ![ins.reg_a] = ea] ELSE gpr
            /\ UNCHANGED <<fpr, fpscr, cr, host_round, intc, scsi>>

ppc_lfs(reg_d, reg_a, d) ==
    FpLoad(Instr("lfs", reg_d, reg_a, 0, 0, FALSE, d), FALSE, EA_D(reg_a, d), 4)

ppc_lfsu(reg_d, reg_a, d) ==
    FpLoad(Instr("lfsu", reg_d, reg_a, 0, 0, FALSE, d), TRUE, EA_D(reg_a, d), 4)

ppc_lfsx(reg_d, reg_a, reg_b) ==
    FpLoad(Instr("lfsx", reg_d, reg_a, reg_b, 0, FALSE, {}), FALSE, EA_X(reg_a, reg_b), 4)

ppc_lfsux(reg_d, reg_a, reg_b) ==
    FpLoad(Instr("lfsux", reg_d, reg_a, reg_b, 0, FALSE, {}), TRUE, EA_X(reg_a, reg_b), 4)

ppc_lfd(reg_d, reg_a, d) ==
    FpLoad(Instr("lfd", reg_d, reg_a, 0, 0, FALSE, d), FALSE, EA_D(reg_a, d), 8)

ppc_lfdu(reg_d, reg_a, d) ==
    FpLoad(Instr("lfdu", reg_d, reg_a, 0, 0, FALSE, d), TRUE, EA_D(reg_a, d), 8)

ppc_lfdx(reg_d, reg_a, reg_b) ==
    FpLoad(Instr("lfdx", reg_d, reg_a, reg_b, 0, FALSE, {}), FALSE, EA_X(reg_a, reg_b), 8)

ppc_lfdux(reg_d, reg_a, reg_b) ==
    FpLoad(Instr("lfdux", reg_d, reg_a, reg_b, 0, FALSE, {}), TRUE, EA_X(reg_a, reg_b), 8)

ppc_stfs(reg_s, reg_a, d) ==
    FpStore(Instr("stfs", reg_s, reg_a, 0, 0, FALSE, d), FALSE, EA_D(reg_a, d), 4,
            DoubleToFloatBits(fpr[reg_s], host_round))

ppc_stfsu(reg_s, reg_a, d) ==
    FpStore(Instr("stfsu", reg_s, reg_a, 0, 0, FALSE, d), TRUE, EA_D(reg_a, d), 4,
            DoubleToFloatBits(fpr[reg_s], host_round))

ppc_stfsx(reg_s, reg_a, reg_b) ==
    FpStore(Instr("stfsx", reg_s, reg_a, reg_b, 0, FALSE, {}), FALSE, EA_X(reg_a, reg_b), 4,
            DoubleToFloatBits(fpr[reg_s], host_round))

ppc_stfsux(reg_s, reg_a, reg_b) ==
    FpStore(Instr("stfsux", reg_s, reg_a, reg_b, 0, FALSE, {}), TRUE, EA_X(reg_a, reg_b), 4,
            DoubleToFloatBits(fpr[reg_s], host_round))

ppc_stfd(reg_s, reg_a, d) ==
    FpStore(Instr("stfd", reg_s, reg_a, 0, 0, FALSE, d), FALSE, EA_D(reg_a, d), 8,
            fpr[reg_s])

ppc_stfdu(reg_s, reg_a, d) ==
    FpStore(Instr("stfdu", reg_s, reg_a, 0, 0, FALSE, d), TRUE, EA_D(reg_a, d), 8,
            fpr[reg_s])

ppc_stfdx(reg_s, reg_a, reg_b) ==
    FpStore(Instr("stfdx", reg_s, reg_a, reg_b, 0, FALSE, {}), FALSE, EA_X(reg_a, reg_b), 8,
            fpr[reg_s])

ppc_stfdux(reg_s, reg_a, reg_b) ==
    FpStore(Instr("stfdux", reg_s, reg_a, reg_b, 0, FALSE, {}), TRUE, EA_X(reg_a, reg_b), 8,
            fpr[reg_s])

\* (mutant) stfiwx stores the single-precision conversion of frS
ppc_stfiwx_Converts(reg_s, reg_a, reg_b) ==
    FpStore(Instr("stfiwx", reg_s, reg_a, reg_b, 0, FALSE, {}), FALSE, EA_X(reg_a, reg_b), 4,
            DoubleToFloatBits(fpr[reg_s], host_round))

ppc_stfiwx(reg_s, reg_a, reg_b) ==
    FpStore(Instr("stfiwx", reg_s, reg_a, reg_b, 0, FALSE, {}), FALSE, EA_X(reg_a, reg_b), 4,
            Low32(fpr[reg_s]))

-----------------------------------------------------------------------------
(* Select, square roots and compares *)

\* std::sqrt(b); the root of a positive finite operand is explored when it
\* is exact in FixU fraction bits
Sqrt(b) ==
    IF isnan(b) THEN NaNResults({b})
    ELSE IF iszero(b) THEN {b}
    ELSE IF SignBit(b) THEN DefaultNaNs
    ELSE IF isinf(b) THEN {b}
    ELSE LET n == ToFix(b)
             top == IF n > 2^FixU THEN n ELSE 2^FixU
         IN {FromFix(m, FixU) : m \in {k \in 1..top : k * k = n * (2^FixU)}}

\* the tail of the handlers that store r in frD and leave the FPSCR as f1
FprStep(ins, r, f1) ==
    /\ ppc_cur_instruction' = ins
    /\ fpr' = [fpr EXCEPT ![ins.reg_d] = r]
    /\ fpscr' = f1
    /\ cr' = IF ins.rc_flag THEN ppc_update_cr1(cr, f1) ELSE cr
    /\ exc_log' = <<>>
    /\ mem_log' = <<>>
    /\ UNCHANGED <<gpr, host_round, mem, intc, scsi>>

\* (mutant) fsel tests !(frA < -0.0), so that a NaN frA selects frC
ppc_fsel_NaNSelectsC(reg_d, reg_a, reg_b, reg_c, rc_flag) ==
    FprStep(Instr("fsel", reg_d, reg_a, reg_b, reg_c, rc_flag, 0),
            IF ~DLess(fpr[reg_a], D.NZERO) THEN fpr[reg_c] ELSE fpr[reg_b],
            fpscr)

ppc_fsel(reg_d, reg_a, reg_b, reg_c, rc_flag) ==
    FprStep(Instr("fsel", reg_d, reg_a, reg_b, reg_c, rc_flag, 0),
            IF DGeq(fpr[reg_a], D.NZERO) THEN fpr[reg_c] ELSE fpr[reg_b],
            fpscr)

\* frD is stored first; ppc_confirm_inf_nan<SQRT>(0, reg_b) then reads the
\* registers 0 and reg_b as they are after the store
ppc_fsqrt(reg_d, reg_b, rc_flag) ==
    \E r \in Sqrt(fpr[reg_b]) :
        LET stored == [fpr EXCEPT ![reg_d] = r]
        IN FprStep(Instr("fsqrt", reg_d, 0, reg_b, 0, rc_flag, 0), r,
                   ppc_confirm_inf_nan("SQRT", fpscr, stored[0], stored[reg_b], D.PZERO))

ppc_fsqrts(reg_d, reg_b, rc_flag) ==
    \E r \in Single(Sqrt(fpr[reg_b]), host_round) :
        LET stored == [fpr EXCEPT ![reg_d] = r]
        IN FprStep(Instr("fsqrts", reg_d, 0, reg_b, 0, rc_flag, 0), r,
                   ppc_confirm_inf_nan("SQRT", fpscr, stored[0], stored[reg_b], D.PZERO))

\* 1.0 / sqrt(frB); here ppc_confirm_inf_nan<SQRT> runs before the store
ppc_frsqrte(reg_d, reg_b, rc_flag) ==
    \E r \in UNION {Quot(D.ONE, q) : q \in Sqrt(fpr[reg_b])} :
        FprStep(Instr("frsqrte", reg_d, 0, reg_b, 0, rc_flag, 0), r,
                ppc_confirm_inf_nan("SQRT", fpscr, fpr[0], fpr[reg_b], D.PZERO))

\* cmp_c >> 16 of the compares: the FPCC bit of the relation of a and b
fcmp_c(a, b) ==
    IF isnan(a) \/ isnan(b) THEN FPSCR.FPCC_FUNAN
    ELSE IF DLess(a, b) THEN FPSCR.FPCC_NEG
    ELSE IF DLess(b, a) THEN FPSCR.FPCC_POS
    ELSE FPSCR.FPCC_ZERO

\* the body ppc_fcmpo and ppc_fcmpu share; crf_d is the field number 0..7
FpCompare(ins) ==
    LET c == fcmp_c(fpr[ins.reg_a], fpr[ins.reg_b])
        field == (28 - 4 * ins.reg_d)..(31 - 4 * ins.reg_d)
    IN /\ ppc_cur_instruction' = ins
       /\ fpscr' = (fpscr \ (12..15)) \cup {c}
       /\ cr' = (cr \ field) \cup {c + 16 - 4 * ins.reg_d}
       /\ exc_log' = <<>>
       /\ mem_log' = <<>>
       /\ UNCHANGED <<fpr, gpr, host_round, mem, intc, scsi>>

ppc_fcmpo(crf_d, reg_a, reg_b) ==
    FpCompare(Instr("fcmpo", crf_d, reg_a, reg_b, 0, FALSE, 0))

ppc_fcmpu(crf_d, reg_a, reg_b) ==
    FpCompare(Instr("fcmpu", crf_d, reg_a, reg_b, 0, FALSE, 0))

-----------------------------------------------------------------------------
(* MacIO interrupt controller (GrandCentral, OHare, HeathrowIC).  Only the *)
(* declarations are in macio.h; the behaviour is the one section 4.7 of    *)
(* the specification describes.                                            *)

\* (mutant) the output follows the event latch alone
IntUpdate_EventsOnly(mask, levels, events) ==
    /\ int_mask' = mask
    /\ int_levels' = levels
    /\ int_events' = events
    /\ cpu_int_latch' = (events \cap mask # {})
    /\ UNCHANGED <<cpu, scsi>>

\* the new register contents, followed by signal_cpu_int / clear_cpu_int:
\* the output is asserted when a level or event is unmasked, else released
IntUpdate(mask, levels, events) ==
    /\ int_mask' = mask
    /\ int_levels' = levels
    /\ int_events' = events
    /\ cpu_int_latch' = ((levels \cup events) \cap mask # {})
    /\ UNCHANGED <<cpu, scsi>>

\* ack_int and ack_dma_int: the line irq_id goes to irq_line_state; a rising
\* edge latches the event
ack_int_common(irq_id, irq_line_state) ==
    IntUpdate(int_mask,
              IF irq_line_state = 1 THEN int_levels \cup irq_id ELSE int_levels \ irq_id,
              IF irq_line_state = 1 THEN int_events \cup (irq_id \ int_levels)
                                    ELSE int_events)

ack_int(irq_id, irq_line_state) == ack_int_common(irq_id, irq_line_state)

ack_dma_int(irq_id, irq_line_state) == ack_int_common(irq_id, irq_line_state)

\* a guest write to the events-clear register: the bits of value are cleared
\* from the events, or ORed into them when bit 31 of value is set
write_int_clear(value) ==
    IntUpdate(int_mask, int_levels,
              IF 31 \in value THEN int_events \cup (value \ {31})
                              ELSE int_events \ value)

\* a guest write to the mask register
write_int_mask(value) == IntUpdate(value, int_levels, int_events)

-----------------------------------------------------------------------------
(* SCSI hard disk: ScsiHardDisk::read and ScsiHardDisk::write *)

sector_size == 512

RECURSIVE MulBits(_, _)
\* the sum modulo 2^32 of w << k over the bit positions k in ks
MulBits(w, ks) ==
    IF ks = {} THEN {}
    ELSE LET k == CHOOSE x \in ks : TRUE
         IN Add32(Shl32(w, k), MulBits(w, ks \ {k}))

\* w * n in uint32_t
Mul32(w, n) == MulBits(w, BitsOf(n))

\* the common body of read and write: transfer_size and device_offset are
\* uint32_t; seekg(device_offset) and then the transfer of transfer_size
\* bytes.  lba is a 32-bit word, transfer_len a 16-bit word.
ScsiTransfer(io, lba, transfer_len) ==
    LET transfer_size == Mul32(IF transfer_len = {} THEN BitsOf(256) ELSE transfer_len,
                               sector_size)
        device_offset == Mul32(lba, sector_size)
    IN  /\ hdd_img' = [pos |-> device_offset, io |-> io, count |-> transfer_size]
        /\ scsi_cmd' = [op |-> io, lba |-> lba, transfer_len |-> transfer_len]
        /\ UNCHANGED <<cpu, intc>>

ScsiHardDisk_read(lba, transfer_len) == ScsiTransfer("read", lba, transfer_len)

ScsiHardDisk_write(lba, transfer_len) == ScsiTransfer("write", lba, transfer_len)

-----------------------------------------------------------------------------
(* Bounds of the exploration and initial states *)

FRegs == {0, 1, 2}       \* the FPRs the explored instructions name
GRegs == {0, 1, 2}       \* the GPRs the explored instructions name

\* operands offered to fctiw/fctiwz, in the order the bound admits them
ConvSamples ==
    << D.QNAN,
       Cell(\H421B, \HF08E, \HB000, 0),     \* 3.0e10
       D.HALF,
       Cell(\H4004, 0, 0, 0),               \* 2.5
       Cell(\HC004, 0, 0, 0),               \* -2.5
       Cell(\HBFE0, 0, 0, 0),               \* -0.5
       D.INT_MIN,                           \* -2147483648.0
       Cell(\HC1E0, 0, \H0010, 0),          \* -2147483648.5
       D.INT_MAX,                           \* 2147483647.0
       Cell(\H41DF, \HFFFF, \HFFD0, 0),     \* 2147483647.25
       D.SNAN,
       D.NINF,
       Cell(\H3FF8, 0, 0, 0),               \* 1.5
       Cell(\HBFF8, 0, 0, 0),               \* -1.5
       D.PREHALF,
       D.PINF,
       Cell(\HC1DF, \HFFFF, \HFFE0, 0),     \* -2147483647.5
       Cell(\H41DF, \HFFFF, \HFFA0, 0) >>   \* 2147483646.5

MaxConvSamples == 13

ConvOperands ==
    {ConvSamples[i] : i \in 1..(IF MaxConvSamples < Len(ConvSamples)
                                THEN MaxConvSamples ELSE Len(ConvSamples))}

\* the state after reset, with the registers already loaded with the operands
InitWith(fprs, gprs, mems) ==
    /\ fpr \in fprs
    /\ gpr = gprs
    /\ fpscr = {}
    /\ cr = {}
    /\ host_round = "FE_TONEAREST"
    /\ mem = mems
    /\ ppc_cur_instruction = Instr("reset", 0, 0, 0, 0, FALSE, 0)
    /\ int_mask = {} /\ int_levels = {} /\ int_events = {}
    /\ cpu_int_latch = FALSE
    /\ hdd_img = [pos |-> {}, io |-> "open", count |-> {}]
    /\ scsi_cmd = [op |-> "ScsiHardDisk", lba |-> {}, transfer_len |-> {}]
    /\ exc_log = <<>>
    /\ mem_log = <<>>

InitConv ==
    InitWith({[r \in FRegs |-> IF r = 1 THEN v ELSE D.PZERO] : v \in ConvOperands},
             [r \in GRegs |-> {}], [a \in Mapped |-> {}])

\* fctiw and fctiwz into f0 from either register; mtfsfi 7, imm sets RN
\* (and clears NI, XE); mtfsb1 24 and mtfsb0 24 set and clear VE
NextConv ==
    \/ \E b \in {0, 1}, rc \in BOOLEAN, resumes \in BOOLEAN : ppc_fctiw(0, b, rc, resumes)
    \/ \E b \in {0, 1}, rc \in BOOLEAN, resumes \in BOOLEAN : ppc_fctiwz(0, b, rc, resumes)
    \/ \E imm \in SUBSET {0, 1} : ppc_mtfsfi(7, imm, FALSE)
    \/ ppc_mtfsb1(24, FALSE)
    \/ ppc_mtfsb0(24, FALSE)

SpecConv == InitConv /\ [][NextConv]_vars

-----------------------------------------------------------------------------
(* The FPSCR-writing instructions from reset: SpecFpscr *)

\* the FPRs hold the two FPSCR images offered to mtfsf in their low words
InitFpscr ==
    InitWith({[r \in FRegs |-> IF r = 0 THEN Cell(\HFFF8, 0, \HFFFF, \HFFFF)
                                        ELSE Cell(\HFFF8, 0, \H2000, \H0082)]},
             [r \in GRegs |-> {}], [a \in Mapped |-> {}])

\* bit numbers (big-endian, as in the instruction) offered to mtfsb0/mtfsb1:
\* FX, FEX, VX, OX, OE and the low RN bit
NextFpscr ==
    \/ \E crb \in {0, 1, 2, 3, 25, 31}, rc \in BOOLEAN : ppc_mtfsb0(crb, rc)
    \/ \E crb \in {0, 1, 2, 3, 25, 31}, rc \in BOOLEAN : ppc_mtfsb1(crb, rc)
    \/ \E crfD \in {0, 7}, imm \in {{}, {0, 1, 2, 3}}, rc \in BOOLEAN :
          ppc_mtfsfi(crfD, imm, rc)
    \/ \E b \in {0, 1}, fm \in {0..7, {7}, {0, 5}}, rc \in BOOLEAN : ppc_mtfsf(b, fm, rc)
    \/ \E crfS \in {0, 5} : ppc_mcrfs(1, crfS)
    \/ \E rn \in SUBSET FPSCR.RN_MASK : update_fpscr((fpscr \ FPSCR.RN_MASK) \cup rn)

SpecFpscr == InitFpscr /\ [][NextFpscr]_vars

-----------------------------------------------------------------------------
(* The arithmetic instructions from reset: SpecArith *)

\* the operand pairs loaded into f1 and f2; every finite operand is a
\* multiple of 2^-FixU
ArithOperands ==
    {<<D.QNAN, D.ONE>>, <<D.QNAN, D.SNAN>>, <<D.ONE, D.MONE>>,
     <<D.PINF, D.NINF>>, <<D.PZERO, D.NZERO>>, <<D.PINF, D.PZERO>>}

InitArith ==
    InitWith({[r \in FRegs |-> IF r = 0 THEN D.PZERO ELSE p[r]] : p \in ArithOperands},
             [r \in GRegs |-> {}], [a \in Mapped |-> {}])

\* the sources of the explored arithmetic instructions are f1 and f2; frD is f0
NextArith ==
    \/ \E a \in {1, 2}, b \in {1, 2}, rc \in BOOLEAN : ppc_fadd(0, a, b, rc)
    \/ \E a \in {1, 2}, b \in {1, 2}, rc \in BOOLEAN : ppc_fsub(0, a, b, rc)
    \/ \E a \in {1, 2}, b \in {1, 2}, rc \in BOOLEAN : ppc_fdiv(0, a, b, rc)
    \/ \E a \in {1, 2}, b \in {1, 2}, rc \in BOOLEAN : ppc_fmul(0, a, b, rc)
    \/ \E a \in {1, 2}, b \in {1, 2}, rc \in BOOLEAN : ppc_fadds(0, a, b, rc)
    \/ \E a \in {1, 2}, b \in {1, 2}, rc \in BOOLEAN : ppc_fsubs(0, a, b, rc)
    \/ \E a \in {1, 2}, b \in {1, 2}, rc \in BOOLEAN : ppc_fdivs(0, a, b, rc)
    \/ \E a \in {1, 2}, b \in {1, 2}, rc \in BOOLEAN : ppc_fmuls(0, a, b, rc)
    \/ \E a \in {1, 2}, b \in {1, 2}, rc \in BOOLEAN : ppc_fmadd(0, a, b, 1, rc)
    \/ \E a \in {1, 2}, b \in {1, 2}, rc \in BOOLEAN : ppc_fmsub(0, a, b, 1, rc)
    \/ \E a \in {1, 2}, b \in {1, 2}, rc \in BOOLEAN : ppc_fnmadd(0, a, b, 1, rc)
    \/ \E a \in {1, 2}, b \in {1, 2}, rc \in BOOLEAN : ppc_fnmsub(0, a, b, 1, rc)
    \/ \E a \in {1, 2}, b \in {1, 2}, rc \in BOOLEAN : ppc_fmadds(0, a, b, 1, rc)
    \/ \E a \in {1, 2}, b \in {1, 2}, rc \in BOOLEAN : ppc_fmsubs(0, a, b, 1, rc)
    \/ \E a \in {1, 2}, b \in {1, 2}, rc \in BOOLEAN : ppc_fnmadds(0, a, b, 1, rc)
    \/ \E a \in {1, 2}, b \in {1, 2}, rc \in BOOLEAN : ppc_fnmsubs(0, a, b, 1, rc)

SpecArith == InitArith /\ [][NextArith]_vars

-----------------------------------------------------------------------------
(* The floating-point loads and stores: SpecLS *)

\* r0 = 0x1000, r1 = 0x1008, r2 = 0xFFFFFFFC (-4).  f1 = 0x8000000000000001
\* is the value stored, f0 the register loaded, and memory starts as the
\* image of f1 at 0x1000
InitLS ==
    InitWith({[r \in FRegs |-> IF r = 1 THEN Cell(\H8000, 0, 0, 1) ELSE D.PZERO]},
             [r \in GRegs |-> CASE r = 0 -> Word(0, \H1000)
                                 [] r = 1 -> Word(0, \H1008)
                                 [] r = 2 -> Word(\HFFFF, \HFFFC)],
             [a \in Mapped |-> IF a = Word(0, \H1000) THEN Word(\H8000, 0)
                                                       ELSE Word(0, 1)])

\* rA is r0 or r1, rB is r0 or r2, d is -8 or 0x1004
NextLS ==
    \/ \E a \in {0, 1}, d \in {BitsOf(\HFFF8), BitsOf(\H1004)} : ppc_lfs(0, a, d)
    \/ \E a \in {0, 1}, d \in {BitsOf(\HFFF8), BitsOf(\H1004)} : ppc_lfsu(0, a, d)
    \/ \E a \in {0, 1}, d \in {BitsOf(\HFFF8), BitsOf(\H1004)} : ppc_lfd(0, a, d)
    \/ \E a \in {0, 1}, d \in {BitsOf(\HFFF8), BitsOf(\H1004)} : ppc_lfdu(0, a, d)
    \/ \E a \in {0, 1}, b \in {0, 2} : ppc_lfsx(0, a, b)
    \/ \E a \in {0, 1}, b \in {0, 2} : ppc_lfsux(0, a, b)
    \/ \E a \in {0, 1}, b \in {0, 2} : ppc_lfdx(0, a, b)
    \/ \E a \in {0, 1}, b \in {0, 2} : ppc_lfdux(0, a, b)
    \/ \E a \in {0, 1}, d \in {BitsOf(\HFFF8), BitsOf(\H1004)} : ppc_stfs(1, a, d)
    \/ \E a \in {0, 1}, d \in {BitsOf(\HFFF8), BitsOf(\H1004)} : ppc_stfsu(1, a, d)
    \/ \E a \in {0, 1}, d \in {BitsOf(\HFFF8), BitsOf(\H1004)} : ppc_stfd(1, a, d)
    \/ \E a \in {0, 1}, d \in {BitsOf(\HFFF8), BitsOf(\H1004)} : ppc_stfdu(1, a, d)
    \/ \E a \in {0, 1}, b \in {0, 2} : ppc_stfsx(1, a, b)
    \/ \E a \in {0, 1}, b \in {0, 2} : ppc_stfsux(1, a, b)
    \/ \E a \in {0, 1}, b \in {0, 2} : ppc_stfdx(1, a, b)
    \/ \E a \in {0, 1}, b \in {0, 2} : ppc_stfdux(1, a, b)
    \/ \E a \in {0, 1}, b \in {0, 2} : ppc_stfiwx(1, a, b)

SpecLS == InitLS /\ [][NextLS]_vars

-----------------------------------------------------------------------------
(* Select, square roots and compares from reset: SpecUnary *)

\* the operand pairs loaded into f1 and f2 (4.0 and -4.0 among them)
UnaryOperands ==
    {<<D.QNAN, D.ONE>>, <<D.SNAN, D.MONE>>, <<D.QNAN, D.QNAN>>,
     <<D.NZERO, Cell(\HC010, 0, 0, 0)>>, <<D.PZERO, Cell(\H4010, 0, 0, 0)>>,
     <<D.NINF, D.PINF>>}

InitUnary ==
    InitWith({[r \in FRegs |-> IF r = 0 THEN D.PZERO ELSE p[r]] : p \in UnaryOperands},
             [r \in GRegs |-> {}], [a \in Mapped |-> {}])

\* frD is f0; the square roots may also take f0 as their operand, the one
\* case where the store precedes the operand test
NextUnary ==
    \/ \E a \in {1, 2}, rc \in BOOLEAN : ppc_fsel(0, a, 1, 2, rc)
    \/ \E b \in FRegs, rc \in BOOLEAN : ppc_fsqrt(0, b, rc)
    \/ \E b \in FRegs, rc \in BOOLEAN : ppc_fsqrts(0, b, rc)
    \/ \E b \in FRegs, rc \in BOOLEAN : ppc_frsqrte(0, b, rc)
    \/ \E a \in {1, 2}, b \in {1, 2} : ppc_fcmpo(0, a, b)
    \/ \E a \in {1, 2}, b \in {1, 2} : ppc_fcmpu(2, a, b)

SpecUnary == InitUnary /\ [][NextUnary]_vars

-----------------------------------------------------------------------------
(* mcrfs after conversions and FPSCR writes: SpecMcrfs *)

\* f0 holds the NaN that fctiw stores for a NaN, so fctiw f0, f0 is always
\* invalid and leaves f0 as it is
InitMcrfs ==
    InitWith({[r \in FRegs |-> Cell(\HFFF8, 0, \H8000, 0)]},
             [r \in GRegs |-> {}], [a \in Mapped |-> {}])

\* mtfsb1 0 sets FX, mtfsb1 24 and mtfsb0 24 set and clear VE; mtfsfi 3
\* writes VXVC, FR, FI and C; mcrfs moves field 0 (FX, FEX, VX, OX), field 3
\* or field 5 (VXSOFT, VXSQRT, VXCVI) to CR field 2
NextMcrfs ==
    \/ \E resumes \in BOOLEAN : ppc_fctiw(0, 0, FALSE, resumes)
    \/ \E crb \in {0, 24} : ppc_mtfsb1(crb, FALSE)
    \/ ppc_mtfsb0(24, FALSE)
    \/ \E imm \in {{}, {0, 1, 2, 3}} : ppc_mtfsfi(3, imm, FALSE)
    \/ \E crfS \in {0, 3, 5} : ppc_mcrfs(2, crfS)

SpecMcrfs == InitMcrfs /\ [][NextMcrfs]_vars

-----------------------------------------------------------------------------
(* The interrupt controller from reset: SpecIC *)

MaxIrq == 3      \* interrupt sources 0 .. MaxIrq - 1

IrqBits == 0..(MaxIrq - 1)

InitIC ==
    InitWith({[r \in FRegs |-> D.PZERO]}, [r \in GRegs |-> {}], [a \in Mapped |-> {}])

NextIC ==
    \/ \E i \in IrqBits, st \in {0, 1} : ack_int({i}, st)
    \/ \E i \in IrqBits, st \in {0, 1} : ack_dma_int({i}, st)
    \/ \E value \in SUBSET (IrqBits \cup {31}) : write_int_clear(value)
    \/ \E value \in SUBSET (IrqBits \cup {31}) : write_int_mask(value)

SpecIC == InitIC /\ [][NextIC]_vars

-----------------------------------------------------------------------------
(* The SCSI hard disk after construction: SpecScsi *)

\* logical block addresses: 0, 1, 0x01000008, 2^23 - 1, 2^23, 2^23 + 1,
\* 2^31 and 2^32 - 1
LbaSamples ==
    {{}, {0}, {24, 3}, 0..22, {23}, {23, 0}, {31}, 0..31}

\* transfer lengths: 0, 1, 10, 255, 256, 0x8000 and 0xFFFF
LenSamples ==
    {{}, {0}, {1, 3}, 0..7, {8}, {15}, 0..15}

InitScsi ==
    InitWith({[r \in FRegs |-> D.PZERO]}, [r \in GRegs |-> {}], [a \in Mapped |-> {}])

NextScsi ==
    \/ \E lba \in LbaSamples, len \in LenSamples : ScsiHardDisk_read(lba, len)
    \/ \E lba \in LbaSamples, len \in LenSamples : ScsiHardDisk_write(lba, len)

SpecScsi == InitScsi /\ [][NextScsi]_vars

-----------------------------------------------------------------------------
(* Claims about fctiw and fctiwz, checked under SpecConv *)

IsConv(ins) == ins.op \in {"fctiw", "fctiwz"}

\* x is a number of the int32 range [-2^31, 2^31 - 1]
InInt32Range(x) == ~isnan(x) /\ ~DLess(D.INT_MAX, x) /\ ~DLess(x, D.INT_MIN)

\* RN as a number
RN(f) == SetToNat(f \cap FPSCR.RN_MASK)

\* x rounded to an integer under rounding mode rn of the architecture
\* (0 nearest, ties to even; 1 toward zero; 2 toward +infinity;
\* 3 toward -infinity), as a two's complement word; x in the int32 range
ArchRound(rn, x) ==
    LET up == CASE rn = 0 -> FracGTHalf(x) \/ (FracGEHalf(x) /\ 0 \in IntMag(x))
                [] rn = 1 -> FALSE
                [] rn = 2 -> ~SignBit(x) /\ FracNZ(x)
                [] rn = 3 -> SignBit(x) /\ FracNZ(x)
        mag == IF up THEN Inc32(IntMag(x)) ELSE IntMag(x)
    IN IF SignBit(x) THEN Neg32(mag) ELSE mag

\* C6: after fctiw or fctiwz with an operand that is a NaN or lies outside
\* the int32 range, FPSCR has FX, VX and VXCVI all set.
C6_ConvInvalidSetsFX ==
    [][LET ins == ppc_cur_instruction' IN
       (IsConv(ins) /\ ~InInt32Range(fpr[ins.reg_b]))
           => {FPSCR.FX, FPSCR.VX, FPSCR.VXCVI} \subseteq fpscr']_vars

\* C7: with VE clear, fctiw and fctiwz write low word 0x80000000 for a NaN or
\* an operand below -2^31, low word 0x7FFFFFFF for an operand above 2^31 - 1,
\* and whatever they write has the high word 0xFFF80000.
C7_ConvSaturates ==
    [][LET ins == ppc_cur_instruction'
           x   == fpr[ins.reg_b]
           r   == fpr'[ins.reg_d]
       IN (IsConv(ins) /\ FPSCR.VE \notin fpscr) =>
            /\ (isnan(x) \/ DLess(x, D.INT_MIN)) => Low32(r) = Word(\H8000, 0)
            /\ DLess(D.INT_MAX, x) => Low32(r) = Word(\H7FFF, \HFFFF)
            /\ High32(r) = Word(\HFFF8, 0)]_vars

\* C7 witness: fctiwz of 3.0e10 with VE clear has stored the positive sentinel
C7_Witness ==
    /\ ppc_cur_instruction.op = "fctiwz"
    /\ ppc_cur_instruction.reg_b = 1 /\ ppc_cur_instruction.reg_d = 0
    /\ fpr[1] = ConvSamples[2]
    /\ FPSCR.VE \notin fpscr
    /\ fpr[0] = Cell(\HFFF8, 0, \H7FFF, \HFFFF)

\* C8: for an operand in the int32 range fctiw writes the operand rounded
\* under FPSCR[RN] (nearest with ties to even for RN = 0) and fctiwz writes
\* the truncated operand, to the low word of frD.
C8_ConvRoundsByRN ==
    [][LET ins == ppc_cur_instruction'
           x   == fpr[ins.reg_b]
       IN (IsConv(ins) /\ InInt32Range(x)) =>
            Low32(fpr'[ins.reg_d]) =
                ArchRound(IF ins.op = "fctiw" THEN RN(fpscr) ELSE 1, x)]_vars

-----------------------------------------------------------------------------
(* Claims about the arithmetic instructions, checked under SpecArith *)

ArithOps ==
    {"fadd", "fsub", "fmul", "fdiv", "fmadd", "fmsub", "fnmadd", "fnmsub",
     "fadds", "fsubs", "fmuls", "fdivs", "fmadds", "fmsubs", "fnmadds", "fnmsubs"}

\* the instructions that may clear FX
FxClearers == {"mtfsf", "mtfsfi", "mtfsb0", "mcrfs"}

\* C2: FX is sticky: once FX is 1, an instruction other than mtfsf, mtfsfi,
\* mtfsb0 and mcrfs leaves it 1, whatever its operands.
C2_FxSticky ==
    [][(FPSCR.FX \in fpscr /\ ppc_cur_instruction'.op \notin FxClearers)
          => FPSCR.FX \in fpscr']_vars

\* the FPCC field (FL, FG, FE, FU) that describes the double r
FpccOf(r) ==
    IF isnan(r) THEN {FPSCR.FPCC_FUNAN}
    ELSE IF iszero(r) THEN {FPSCR.FPCC_ZERO}
    ELSE {IF SignBit(r) THEN FPSCR.FPCC_NEG ELSE FPSCR.FPCC_POS}
            \cup (IF isinf(r) THEN {FPSCR.FPCC_FUNAN} ELSE {})

\* C4: after every arithmetic instruction the FPCC field describes only the
\* result written to frD; no FPCC bit of an earlier instruction stays set.
C4_FpccDescribesResult ==
    [][LET ins == ppc_cur_instruction' IN
       ins.op \in ArithOps =>
          fpscr' \cap (12..15) = FpccOf(fpr'[ins.reg_d])]_vars

\* C5: after fadd with Rc = 1 and a NaN among its operands, frD holds a
\* quiet NaN, FX and FPCC[FU] are set, and CR1 is FPSCR[FX, FEX, VX, OX] as
\* they stand at the end of the instruction.
C5_FaddNaN ==
    [][LET ins == ppc_cur_instruction' IN
       (ins.op = "fadd" /\ ins.rc_flag
            /\ (isnan(fpr[ins.reg_a]) \/ isnan(fpr[ins.reg_b]))) =>
          /\ isnan(fpr'[ins.reg_d]) /\ 51 \in fpr'[ins.reg_d]
          /\ {FPSCR.FX, FPSCR.FPCC_FUNAN} \subseteq fpscr'
          /\ \A k \in 0..3 : (27 - k \in cr') <=> (31 - k \in fpscr')]_vars

-----------------------------------------------------------------------------
(* Claims about the FPSCR-writing instructions, checked under SpecFpscr *)

\* the exception summary bits with the enable bit of each
EnabledPairs ==
    {<<FPSCR.VX, FPSCR.VE>>, <<FPSCR.OX, FPSCR.OE>>, <<FPSCR.UX, FPSCR.UE>>,
     <<FPSCR.ZX, FPSCR.ZE>>, <<FPSCR.XX, FPSCR.XE>>}

\* C1: in every reachable state FEX is 1 if and only if one of VX, OX, UX,
\* ZX, XX is set together with its enable bit.
C1_FexIsEnabledSummary ==
    (FPSCR.FEX \in fpscr) <=> (\E p \in EnabledPairs : {p[1], p[2]} \subseteq fpscr)

\* the host mode the architecture assigns to each value of RN
ModeOfRN(rn) ==
    CASE rn = 0 -> "FE_TONEAREST"
      [] rn = 1 -> "FE_TOWARDZERO"
      [] rn = 2 -> "FE_UPWARD"
      [] rn = 3 -> "FE_DOWNWARD"

\* C3: after any sequence of update_fpscr, mtfsf, mtfsfi, mtfsb0 and mtfsb1
\* from a state where they agree, the host rounding mode is the one
\* selected by FPSCR[RN].
C3_HostRoundingTracksRN == host_round = ModeOfRN(RN(fpscr))

-----------------------------------------------------------------------------
(* Claims about the floating-point loads and stores, checked under SpecLS  *)

UpdateForms ==
    {"lfsu", "lfsux", "lfdu", "lfdux", "stfsu", "stfsux", "stfdu", "stfdux"}

NonUpdateForms ==
    {"lfs", "lfsx", "lfd", "lfdx", "stfs", "stfsx", "stfd", "stfdx", "stfiwx"}

\* C9: an update-form load or store with rA = 0 calls the exception routine
\* exactly once, for the illegal-instruction program exception, makes no
\* memory read or write, and leaves every GPR and every FPR unchanged.
C9_UpdateFormRA0Illegal ==
    [][LET ins == ppc_cur_instruction'
       IN (ins.op \in UpdateForms /\ ins.reg_a = 0) =>
            /\ exc_log' = <<ExcCall("EXC_PROGRAM", "ILLEGAL_OP")>>
            /\ mem_log' = <<>>
            /\ mem' = mem
            /\ gpr' = gpr
            /\ fpr' = fpr]_vars

\* C9 witness: stfdux with rA = 0 has raised the exception, after an earlier
\* update form moved r1; r0 still holds 0x1000
C9_Witness ==
    /\ ppc_cur_instruction.op = "stfdux"
    /\ ppc_cur_instruction.reg_a = 0
    /\ exc_log = <<ExcCall("EXC_PROGRAM", "ILLEGAL_OP")>>
    /\ mem_log = <<>>
    /\ gpr[0] = Word(0, \H1000)
    /\ gpr[1] = Word(0, \H1004)

\* C10: after an update form with rA # 0 whose access completed, GPR[rA] is
\* the effective address of that access and no other GPR has changed; a
\* non-update form changes no GPR.
C10_UpdateWritesEA ==
    [][LET ins == ppc_cur_instruction'
       IN /\ (ins.op \in UpdateForms /\ ins.reg_a # 0 /\ exc_log' = <<>>) =>
               /\ Len(mem_log') = 1
               /\ gpr'[ins.reg_a] = mem_log'[1].ea
               /\ \A r \in GRegs \ {ins.reg_a} : gpr'[r] = gpr[r]
          /\ ins.op \in NonUpdateForms => gpr' = gpr]_vars

\* C10 witness: lfdu f0, -8(r1) from r1 = 0x1008 has read the doubleword at
\* 0x1000 and left 0x1000 in r1
C10_Witness ==
    /\ ppc_cur_instruction.op = "lfdu"
    /\ ppc_cur_instruction.reg_a = 1
    /\ ppc_cur_instruction.imm = BitsOf(\HFFF8)
    /\ exc_log = <<>>
    /\ mem_log = <<MemAccess("read", 8, Word(0, \H1000), {})>>
    /\ gpr[1] = Word(0, \H1000)
    /\ gpr[0] = Word(0, \H1000) /\ gpr[2] = Word(\HFFFF, \HFFFC)

\* the two 16-bit halves of a 32-bit word, as numbers
HalfOf(w, h) == SetToNat({i - 16 * h : i \in w \cap ((16 * h)..(16 * h + 15))})

\* a + b modulo 2^32, by the arithmetic of the halves
SumMod32(a, b) ==
    LET lo == HalfOf(a, 0) + HalfOf(b, 0)
        hi == HalfOf(a, 1) + HalfOf(b, 1) + (lo \div 65536)
    IN Word(hi % 65536, lo % 65536)

DForms == {"lfs", "lfsu", "lfd", "lfdu", "stfs", "stfsu", "stfd", "stfdu"}

\* the architected effective address of instruction ins over the GPRs g
ArchEA(ins, g) ==
    LET base == IF ins.reg_a = 0 THEN {} ELSE g[ins.reg_a]
        disp == IF 15 \in ins.imm THEN Word(65535, SetToNat(ins.imm)) ELSE ins.imm
    IN IF ins.op \in DForms THEN SumMod32(base, disp)
       ELSE SumMod32(base, g[ins.reg_b])

\* C11: every memory access of an FP load or store is made at (rA|0) + the
\* sign-extended displacement (D-forms) or (rA|0) + GPR[rB] (X-forms),
\* modulo 2^32, where (rA|0) is 0 when the rA field is 0.
C11_EffectiveAddress ==
    [][LET ins == ppc_cur_instruction'
       IN ins.op \in UpdateForms \cup NonUpdateForms =>
            \A i \in 1..Len(mem_log') : mem_log'[i].ea = ArchEA(ins, gpr)]_vars

\* C11 witness: lfs f0, 0x1004(0) with r0 = 0x1000 has read the word at 0x1004
C11_Witness ==
    /\ ppc_cur_instruction.op = "lfs"
    /\ ppc_cur_instruction.reg_a = 0
    /\ ppc_cur_instruction.imm = BitsOf(\H1004)
    /\ gpr[0] = Word(0, \H1000)
    /\ exc_log = <<>>
    /\ mem_log = <<MemAccess("read", 4, Word(0, \H1004), {})>>

\* C12: stfiwx makes exactly one MMU call, a 32-bit write at (rA|0) + rB of
\* the low 32 bits of the raw image of frS, and changes no FPR, no GPR,
\* neither the FPSCR nor the CR.
C12_StfiwxRawLowWord ==
    [][LET ins == ppc_cur_instruction'
           raw == fpr[ins.reg_d] \cap (0..31)
       IN ins.op = "stfiwx" =>
            /\ mem_log' = <<MemAccess("write", 4, ArchEA(ins, gpr), raw)>>
            /\ exc_log' = <<>> => mem' = [mem EXCEPT ![ArchEA(ins, gpr)] = raw]
            /\ fpr' = fpr /\ gpr' = gpr /\ fpscr' = fpscr /\ cr' = cr]_vars

\* C12 witness: stfiwx f1, 0, r0 has put the low word 0x00000001 of
\* f1 = 0x8000000000000001 at 0x1000, where a converted store puts 0x80000000
C12_Witness ==
    /\ ppc_cur_instruction.op = "stfiwx"
    /\ ppc_cur_instruction.reg_a = 0 /\ ppc_cur_instruction.reg_b = 0
    /\ fpr[1] = Cell(\H8000, 0, 0, 1)
    /\ exc_log = <<>>
    /\ mem_log = <<MemAccess("write", 4, Word(0, \H1000), Word(0, 1))>>
    /\ mem[Word(0, \H1000)] = Word(0, 1)

-----------------------------------------------------------------------------
(* Claims about select, square roots and compares, checked under SpecUnary *)

\* C13: fsel leaves every FPSCR bit unchanged and never calls the exception
\* routine; frD receives frC when frA is not a NaN and is zero (of either
\* sign) or positive, and frB otherwise.
C13_FselFrame ==
    [][LET ins == ppc_cur_instruction'
           a   == fpr[ins.reg_a]
       IN ins.op = "fsel" =>
            /\ fpscr' = fpscr
            /\ exc_log' = <<>>
            /\ fpr'[ins.reg_d] = IF ~isnan(a) /\ (63 \notin a \/ a = {63})
                                 THEN fpr[ins.reg_c] ELSE fpr[ins.reg_b]]_vars

\* C13 witness: fsel f0, f1, f1, f2 with f1 = -0.0 has selected f2 = -4.0
C13_Witness ==
    /\ ppc_cur_instruction.op = "fsel"
    /\ ppc_cur_instruction.reg_a = 1
    /\ fpr[1] = D.NZERO
    /\ fpr[2] = Cell(\HC010, 0, 0, 0)
    /\ fpr[0] = Cell(\HC010, 0, 0, 0)
    /\ exc_log = <<>>

IsSNaN(c) == isnan(c) /\ 51 \notin c

\* C15: fcmpo with a NaN operand leaves FX and VXVC set, and VXSNAN too when
\* an operand is a signalling NaN; fcmpu whose NaN operands are all quiet
\* sets neither FX nor VXVC.
C15_FcmpoSetsVXVC ==
    [][LET ins == ppc_cur_instruction'
           a   == fpr[ins.reg_a]
           b   == fpr[ins.reg_b]
       IN /\ (ins.op = "fcmpo" /\ (isnan(a) \/ isnan(b))) =>
               /\ {FPSCR.FX, FPSCR.VXVC} \subseteq fpscr'
               /\ (IsSNaN(a) \/ IsSNaN(b)) => FPSCR.VXSNAN \in fpscr'
          /\ (ins.op = "fcmpu" /\ (isnan(a) \/ isnan(b)) /\ ~IsSNaN(a) /\ ~IsSNaN(b)) =>
               (fpscr' \ fpscr) \cap {FPSCR.FX, FPSCR.VXVC} = {}]_vars

\* C18: fsqrt, fsqrts and frsqrte leave FX and VXSQRT set when the operand is
\* a NaN or below zero, and do not set VXSQRT for -0, +0, a positive operand
\* or +infinity.
C18_SqrtSetsVXSQRT ==
    [][LET ins == ppc_cur_instruction'
           b   == fpr[ins.reg_b]
       IN ins.op \in {"fsqrt", "fsqrts", "frsqrte"} =>
            IF isnan(b) \/ (63 \in b /\ b # {63})
            THEN {FPSCR.FX, FPSCR.VXSQRT} \subseteq fpscr'
            ELSE FPSCR.VXSQRT \in fpscr' => FPSCR.VXSQRT \in fpscr]_vars

-----------------------------------------------------------------------------
(* Claims about the invalid-operation causes of the arithmetic             *)
(* instructions, checked under SpecArith                                   *)

\* C16: fdiv and fdivs leave FX and VXIDI set when both operands are
\* infinities, FX and VXZDZ set when both are zeros, and set neither VXIDI
\* nor VXZDZ for any other pair of operands that are not NaNs.
C16_DivInvalidCauses ==
    [][LET ins == ppc_cur_instruction'
           a   == fpr[ins.reg_a]
           b   == fpr[ins.reg_b]
       IN ins.op \in {"fdiv", "fdivs"} =>
            /\ (isinf(a) /\ isinf(b)) => {FPSCR.FX, FPSCR.VXIDI} \subseteq fpscr'
            /\ (iszero(a) /\ iszero(b)) => {FPSCR.FX, FPSCR.VXZDZ} \subseteq fpscr'
            /\ (/\ ~isnan(a) /\ ~isnan(b)
                /\ ~(isinf(a) /\ isinf(b))
                /\ ~(iszero(a) /\ iszero(b))) =>
                  (fpscr' \ fpscr) \cap {FPSCR.VXIDI, FPSCR.VXZDZ} = {}]_vars

\* C17: fadd and fadds of infinities of opposite signs, and fsub and fsubs of
\* infinities of one sign, leave FX and VXISI set; an addition or
\* subtraction of finite operands does not set VXISI.
C17_InfMinusInf ==
    [][LET ins == ppc_cur_instruction'
           a   == fpr[ins.reg_a]
           b   == fpr[ins.reg_b]
           add == ins.op \in {"fadd", "fadds"}
           sub == ins.op \in {"fsub", "fsubs"}
       IN /\ (/\ isinf(a) /\ isinf(b)
              /\ (add /\ a # b) \/ (sub /\ a = b)) =>
                {FPSCR.FX, FPSCR.VXISI} \subseteq fpscr'
          /\ (/\ add \/ sub
              /\ ~isnan(a) /\ ~isinf(a) /\ ~isnan(b) /\ ~isinf(b)) =>
                (FPSCR.VXISI \in fpscr' => FPSCR.VXISI \in fpscr)]_vars

-----------------------------------------------------------------------------
(* Further claims about fctiw and fctiwz, checked under SpecConv *)

\* the instructions that carry an Rc bit
RcOps ==
    ArithOps \cup {"fabs", "fneg", "fnabs", "fmr", "fsel", "frsp", "fres",
                   "fsqrt", "fsqrts", "frsqrte", "fctiw", "fctiwz", "mffs",
                   "mtfsf", "mtfsfi", "mtfsb0", "mtfsb1"}

ArchMag(rn, x) ==
    LET up == CASE rn = 0 -> FracGTHalf(x) \/ (FracGEHalf(x) /\ 0 \in IntMag(x))
                [] rn = 1 -> FALSE
                [] rn = 2 -> ~SignBit(x) /\ FracNZ(x)
                [] rn = 3 -> SignBit(x) /\ FracNZ(x)
    IN IF up THEN Inc32(IntMag(x)) ELSE IntMag(x)

\* x rounded under mode rn lies in [-2^31, 2^31 - 1]
RoundsIntoInt32(rn, x) ==
    /\ ~isnan(x) /\ ~isinf(x)
    /\ Unb(x) < 32 /\ IntMag(x) # All32
    /\ LET m == ArchMag(rn, x)
       IN 31 \notin m \/ (SignBit(x) /\ m = {31})

\* C20: when the operand of fctiw or fctiwz, rounded under the applicable
\* mode, lies in the int32 range (as -2147483648.5 and 2147483647.25 do
\* under truncation), the instruction sets neither VXCVI nor VX.
C20_ConvInvalidOnlyOutOfRange ==
    [][LET ins == ppc_cur_instruction'
           x   == fpr[ins.reg_b]
           rn  == IF ins.op = "fctiw" THEN RN(fpscr) ELSE 1
       IN (IsConv(ins) /\ RoundsIntoInt32(rn, x)) =>
            (fpscr' \ fpscr) \cap {FPSCR.VXCVI, FPSCR.VX} = {}]_vars

-----------------------------------------------------------------------------
(* Claim about the interrupt controller, checked under SpecIC *)

-----------------------------------------------------------------------------
(* Claim about the enabled invalid-operation exception of fctiw and fctiwz, *)
(* checked under SpecConv                                                   *)

\* C21: fctiw or fctiwz with VE set and an operand that is a NaN or lies
\* outside the int32 range sets VX, VXCVI and FEX, clears FR and FI, calls
\* the exception routine exactly once and leaves every FPR as it was; with
\* VE clear the exception routine is not called.
C21_ConvEnabledInvalidTraps ==
    [][LET ins == ppc_cur_instruction'
           x   == fpr[ins.reg_b]
       IN IsConv(ins) =>
            /\ (FPSCR.VE \in fpscr /\ ~InInt32Range(x)) =>
                  /\ {FPSCR.VX, FPSCR.VXCVI, FPSCR.FEX} \subseteq fpscr'
                  /\ fpscr' \cap {FPSCR.FR, FPSCR.FI} = {}
                  /\ Len(exc_log') = 1
                  /\ exc_log'[1] = ExcCall("EXC_PROGRAM", "FPU_EXCEPTION")
                  /\ fpr' = fpr
            /\ FPSCR.VE \notin fpscr => exc_log' = <<>>]_vars

\* C21 witness: fctiw f0, f1 of 3.0e10 with VE set has called the exception
\* routine and f0 still holds +0.0
C21_Witness ==
    /\ ppc_cur_instruction.op = "fctiw"
    /\ ppc_cur_instruction.reg_b = 1 /\ ppc_cur_instruction.reg_d = 0
    /\ fpr[1] = ConvSamples[2]
    /\ FPSCR.VE \in fpscr
    /\ Len(exc_log) = 1
    /\ fpr[0] = D.PZERO

-----------------------------------------------------------------------------
(* Claim about faulting loads and stores, checked under SpecLS *)

\* C22: when the MMU access of an FP load or store raises an exception and
\* does not return to the handler, the access was the handler's only step:
\* every FPR and every GPR, frD and rA among them, holds the value it had
\* before the instruction.
C22_FaultLeavesRegisters ==
    [][LET ins == ppc_cur_instruction'
       IN (/\ ins.op \in UpdateForms \cup NonUpdateForms
           /\ exc_log' # <<>>
           /\ exc_log'[1].type = "EXC_DSI") =>
            /\ Len(mem_log') = 1
            /\ fpr' = fpr
            /\ gpr' = gpr]_vars

\* C22 witness: stfdu f1, 0x1004(r1) from r1 = 0x1008 has faulted at 0x200C
\* and r1 still holds 0x1008
C22_Witness ==
    /\ ppc_cur_instruction.op = "stfdu"
    /\ ppc_cur_instruction.reg_a = 1
    /\ exc_log = <<ExcCall("EXC_DSI", "MMU")>>
    /\ mem_log = <<MemAccess("write", 8, Word(0, \H200C), Cell(\H8000, 0, 0, 1))>>
    /\ gpr[1] = Word(0, \H1008)

-----------------------------------------------------------------------------
(* Claims about the frames of the FPSCR instructions, checked under *)
(* SpecFpscr                                                        *)

\* the FPSCR bits instruction ins names as its target: the fields selected
\* by FM (mtfsf), field crfD (mtfsfi), the named bit (mtfsb0, mtfsb1)
WriterTarget(ins) ==
    CASE ins.op = "mtfsf"  -> {i \in 0..31 : (i \div 4) \in ins.imm}
      [] ins.op = "mtfsfi" -> (28 - 4 * ins.reg_d)..(31 - 4 * ins.reg_d)
      [] OTHER             -> {31 - ins.reg_d}

\* the 32-bit image the target bits are taken from
WriterSource(ins, f) ==
    CASE ins.op = "mtfsf"  -> {i \in f[ins.reg_b] : i < 32}
      [] ins.op = "mtfsfi" -> {i + 28 - 4 * ins.reg_d : i \in ins.imm}
      [] ins.op = "mtfsb1" -> 0..31
      [] OTHER             -> {}

-----------------------------------------------------------------------------
(* Claim about mcrfs, checked under SpecMcrfs *)

\* the FPSCR exception bits mcrfs may clear, by bit position (bit 0 the
\* least significant): VXCVI, VXSQRT, VXSOFT, VXVC, VXIMZ, VXZDZ, VXIDI,
\* VXISI, VXSNAN, XX, ZX, UX, OX, FX
ExceptionBits == {8, 9, 10} \cup (19..28) \cup {31}

\* C24: mcrfs crfD, crfS gives CR field crfD the value FPSCR field crfS had
\* before the instruction, leaves the other CR fields unchanged, clears in
\* the FPSCR exactly the exception bits of field crfS and changes no other
\* FPSCR bit (FEX, VX, FR, FI, FPRF, the enable bits, NI, RN).
C24_McrfsFrame ==
    [][LET ins == ppc_cur_instruction'
           d   == 28 - 4 * ins.reg_d
           s   == 28 - 4 * ins.imm
       IN ins.op = "mcrfs" =>
            /\ \A k \in 0..3 : (d + k \in cr') <=> (s + k \in fpscr)
            /\ cr' \ (d..(d + 3)) = cr \ (d..(d + 3))
            /\ fpscr' = fpscr \ ((s..(s + 3)) \cap ExceptionBits)]_vars

\* C24 witness: mcrfs cr2, 0 after a trapping conversion with FX set has
\* copied FX, FEX, VX to CR field 2 and cleared FX alone
C24_Witness ==
    /\ ppc_cur_instruction.op = "mcrfs"
    /\ ppc_cur_instruction.imm = 0
    /\ cr \cap (20..23) = {23, 22, 21}
    /\ fpscr \cap (28..31) = {FPSCR.FEX, FPSCR.VX}
    /\ FPSCR.VXCVI \in fpscr

-----------------------------------------------------------------------------
(* Claim about the invalid-operation summary, checked under SpecMcrfs *)

\* C25: in every reachable state FPSCR[VX] is 1 if and only if one of the
\* invalid-operation cause bits VXSNAN, VXISI, VXIDI, VXZDZ, VXIMZ, VXVC,
\* VXSOFT, VXSQRT, VXCVI is 1.
C25_VxIsCauseSummary ==
    (FPSCR.VX \in fpscr) <=>
        (fpscr \cap {FPSCR.VXSNAN, FPSCR.VXISI, FPSCR.VXIDI, FPSCR.VXZDZ,
                     FPSCR.VXIMZ, FPSCR.VXVC, FPSCR.VXSOFT, FPSCR.VXSQRT,
                     FPSCR.VXCVI} # {})

-----------------------------------------------------------------------------
(* Claim about the SCSI hard disk, checked under SpecScsi *)

\* w * 512 as a number of any width
Times512(w) == {i + 9 : i \in w}

\* C26: ScsiHardDisk::read and ScsiHardDisk::write position the image at
\* byte offset lba * 512, computed without wrap-around also when lba * 512
\* needs more than 32 bits, and transfer transfer_len * 512 bytes, taking
\* transfer_len = 0 as 256 sectors.
C26_ScsiOffsetAndSize ==
    [][LET c == scsi_cmd'
       IN c.op \in {"read", "write"} =>
            /\ hdd_img'.io = c.op
            /\ hdd_img'.pos = Times512(c.lba)
            /\ hdd_img'.count =
                  Times512(IF c.transfer_len = {} THEN {8} ELSE c.transfer_len)]_vars

====
